---- MODULE Spec2Model ----
(***************************************************************************)
(* A model of the MAC role state machines of zag-bridge: the PAN           *)
(* Coordinator (src/coordinator.py) and the Device (src/device.py), with   *)
(* the retry/ack layer both share.                                         *)
(*                                                                         *)
(* Time is counted in quanta of 250 ms, the timeout of the roles' blocking *)
(* dequeue.  One action is one iteration of a role's loop(): the dequeue   *)
(* (an event, or Empty after one quantum), the handler of the event, and   *)
(* the deadline checks that follow it.  The code reads the clock only to   *)
(* compare it with a time it stored, so the clock is rebased: every        *)
(* iteration reads time() as Now, and the times a role holds are moved     *)
(* back by the time that passed since the iteration before, no further     *)
(* than Past.                                                              *)
(*                                                                         *)
(* Frames are held decoded, as the fields MHR.decode / BCN.decode /        *)
(* CMD.decode return.  Under Spec the events drawn are frames the decoders *)
(* accept and every radio request is answered ok; under FaultSpec the      *)
(* radio may answer a send_packet request with err and the queue may       *)
(* deliver packets the decoders refuse.                                    *)
(***************************************************************************)
EXTENDS Integers, Sequences, FiniteSets, TLC

VARIABLES role, nev, coord, device, dev, codec, net

vars == <<role, nev, coord, device, dev, codec, net>>

----------------------------------------------------------------------------
(* Bounds of the model.                                                    *)

\* The highest assignable short address; stands for 0xFFFD.
AddrTop == 2
\* The number of events (packets, buttons) a run dequeues.
MaxEvents == 3
\* The retransmissions before the retry layer gives up; stands for 10.
RetryLimit == 2
\* The approval window in quanta; stands for 30 s (120 quanta).  Scaled
\* with RetryLimit, so that the retry layer gives up on a packet, after
\* RetryLimit + 1 quanta, before the window closes.
AssociateTimeout == RetryLimit + 2
\* The device's wait for a response in quanta; stands for 35 s, longer
\* than the approval window.
DeviceTimeout == AssociateTimeout + 1

----------------------------------------------------------------------------
(* Program constants.                                                      *)

\* The reading of time() in the iteration under way, and how far back the
\* times held are told apart: further than every deadline.
Now == 0
Past == DeviceTimeout + 2
\* 0.25 s, the retry period and the dequeue timeout, in quanta.
RetryPeriod == 1
QueueTimeout == 1
\* 0.25 s, the blink period, in quanta.
BlinkPeriod == 1
\* Sequence numbers are bytes.
SeqMod == 256
\* The broadcast / unassigned PAN-ID 0xFFFF and the highest usable one.
BroadcastPanid == 65535
PanidTop == 65533

\* 0xFFFE (reserved) and 0xFFFF (broadcast / unassigned) in the short
\* address space scaled by AddrTop.
ReservedAddr == AddrTop + 1
Unassigned == AddrTop + 2

\* MHR.FrameType
FT_bcn == 0
FT_data == 1
FT_ack == 2
FT_cmd == 3
\* MHR.AddrMode
AM_none == 0
AM_short == 2
AM_long == 3
\* CMD.Identifier
ID_association_request == 1
ID_association_response == 2
ID_bcn_request == 7
\* CMD.AssocStatus
ST_assoc_success == 0
ST_pan_at_capacity == 1
ST_access_denied == 2
\* BCN.Superframe: the enum's values are bit positions
BCN_bcn_order == 0
BCN_superframe_order == 4
BCN_pan_coordinator == 14
BCN_association_permit == 15
\* CMD.AssocCapability: bit positions
CAP_power_source == 2
CAP_idle_recv == 3
CAP_allocate_address == 7

\* The green LED's mask bit (DEV.Leds.green).
LedsGreen == 1

\* Long (64-bit) addresses, abstracted to identifiers: the requesters, one
\* more than the PAN can hold, and the coordinator's own.
LongAddrs == 1..(AddrTop + 1)
CoordLong == AddrTop + 2

----------------------------------------------------------------------------
(* Bit operations on non-negative integers.                                *)

RECURSIVE BitAnd(_, _)
BitAnd(a, b) ==
    IF a = 0 \/ b = 0 THEN 0
    ELSE (a % 2) * (b % 2) + 2 * BitAnd(a \div 2, b \div 2)

RECURSIVE BitOr(_, _)
BitOr(a, b) ==
    IF a = 0 THEN b
    ELSE IF b = 0 THEN a
    ELSE (IF a % 2 = 1 \/ b % 2 = 1 THEN 1 ELSE 0) + 2 * BitOr(a \div 2, b \div 2)

\* a & ~m for non-negative a and m
RECURSIVE BitClear(_, _)
BitClear(a, m) ==
    IF a = 0 THEN 0
    ELSE (IF a % 2 = 1 /\ m % 2 = 0 THEN 1 ELSE 0) + 2 * BitClear(a \div 2, m \div 2)

RECURSIVE Shl(_, _)
Shl(x, n) == IF n = 0 THEN x ELSE Shl(2 * x, n - 1)

----------------------------------------------------------------------------
(* Frames, as the decoders return them.  A field the frame does not carry  *)
(* is 0 (services: empty).                                                 *)

MHR(ftype, seq) ==
    [ftype |-> ftype, req_ack |-> 0, panid_compression |-> 0,
     dst_mode |-> AM_none, src_mode |-> AM_none, seq_num |-> seq,
     dst_panid |-> 0, dst_addr |-> 0, src_panid |-> 0, src_addr |-> 0,
     identifier |-> 0, capability |-> 0, short_addr |-> 0, status |-> 0,
     superframe |-> 0, ssid |-> 0, services |-> <<>>]

----------------------------------------------------------------------------
(* The retry/ack layer and the radio, as both roles use them.  A role is a *)
(* record of the object's fields; sent is what the role transmitted in the *)
(* loop iteration under way and ptx counts the transmissions of the packet *)
(* that is pending.  Of the iteration under way, overwrote says that a     *)
(* submission replaced a packet that was still pending, gave_up that the   *)
(* retry step cleared the pending packet, and dropped lists, for each      *)
(* packet that left the pending entry without an ack, how often it had     *)
(* been transmitted.                                                       *)
(*                                                                         *)
(* fail_at is the send_packet request of the iteration under way that the  *)
(* radio answers with err (0: none).  DEV.write then raises ResponseErr,   *)
(* and nothing of the code that follows the request runs: raised keeps the *)
(* role as it is when the exception is raised.  exc is the exception that  *)
(* left loop(), "none" while the loop runs.                                *)

\* DEV.send_packet: the frame goes on the air, or DEV.write raises.
RadioSend(r, packet) ==
    IF r.fail_at = Len(r.sent) + 1 /\ r.raised = <<>>
    THEN [r EXCEPT !.raised = <<r>>]
    ELSE [r EXCEPT !.sent = Append(@, packet),
                   !.ptx = IF r.packet = <<packet>> THEN @ + 1 ELSE @]

\* send_packet_wait_ack, at time t
SendPacketWaitAck(r, packet, t) ==
    RadioSend([r EXCEPT !.packet = <<packet>>,
                        !.packet_last = t,
                        !.packet_retry = 0,
                        !.packet_seq = r.dsn,
                        !.ptx = 0,
                        !.overwrote = @ \/ r.packet # <<>>,
                        !.dropped = IF r.packet # <<>>
                                    THEN Append(@, r.ptx) ELSE @],
              packet)

\* send_ack
SendAck(r, seq_num) == RadioSend(r, MHR(FT_ack, seq_num))

\* packet_handler's branch for an ack frame, were seq_num not compared
AckHandlerAnySeq(r, mhr) ==
    IF r.packet # <<>>
    THEN [r EXCEPT !.packet = <<>>, !.packet_retry = 0]
    ELSE r

\* packet_handler's branch for an ack frame
AckHandler(r, mhr) ==
    IF r.packet # <<>> /\ mhr.seq_num = r.packet_seq
    THEN [r EXCEPT !.packet = <<>>, !.packet_retry = 0]
    ELSE r

\* The retry step of loop(), with now read as t.
RetryStep(r, t) ==
    IF r.packet # <<>> /\ r.packet_last + RetryPeriod <= t
    THEN IF r.packet_retry < RetryLimit
         THEN [RadioSend([r EXCEPT !.packet_last = t], r.packet[1])
                   EXCEPT !.packet_retry = @ + 1]
         ELSE [r EXCEPT !.packet_last = t, !.packet = <<>>, !.gave_up = TRUE,
                        !.dropped = Append(@, r.ptx)]
    ELSE r

----------------------------------------------------------------------------
(* The coordinator.                                                        *)

\* save_config: the devices section of coordinator.ini keeps the keys it
\* has and takes every entry of devices.
CoordSaveConfig(c) ==
    [c EXCEPT !.saved =
        [s \in DOMAIN c.saved \cup DOMAIN c.devices |->
            IF s \in DOMAIN c.devices THEN c.devices[s] ELSE c.saved[s]]]

\* start_blink, at time t
StartBlink(c, leds, t) ==
    [c EXCEPT !.blink = BitOr(@, leds), !.blink_last = t]

\* end_blink
EndBlink(c, leds) == [c EXCEPT !.blink = BitClear(@, leds)]

\* wait_associate, were the blink not started.
WaitAssociateNoBlink(c, src_addr, t) ==
    [c EXCEPT !.associate_start = t, !.associate = <<src_addr>>]

\* wait_associate, at time t
WaitAssociate(c, src_addr, t) ==
    StartBlink([c EXCEPT !.associate_start = t, !.associate = <<src_addr>>],
               LedsGreen, t)

\* send_bcn
SendBcn(c) ==
    LET mhr == [MHR(FT_bcn, c.bsn) EXCEPT
                    !.src_mode = AM_short,
                    !.src_panid = c.panid,
                    !.src_addr = c.short_addr,
                    !.superframe =
                        BitOr(BitOr(Shl(15, BCN_bcn_order),
                                    Shl(15, BCN_superframe_order)),
                              BitOr(Shl(1, BCN_pan_coordinator),
                                    Shl(1, BCN_association_permit))),
                    !.ssid = c.ssid,
                    !.services = c.services]
    IN [RadioSend(c, mhr) EXCEPT !.bsn = (c.bsn + 1) % SeqMod]

\* LookupShort, were the stored address never found.
LookupShortNone(devices, long_addr) == Unassigned

\* The short address send_association_response finds for long_addr in
\* devices, 0xFFFF when there is none.
LookupShort(devices, long_addr) ==
    LET found == {s \in DOMAIN devices : devices[s] = long_addr}
    IN IF found = {} THEN Unassigned ELSE CHOOSE s \in found : TRUE

\* AtCapacity, were the comparison strict.
AtCapacityStrict(devices) == Cardinality(DOMAIN devices) > AddrTop

\* len(self.devices) >= 0xFFFD
AtCapacity(devices) == Cardinality(DOMAIN devices) >= AddrTop

\* Acceptable, were the coordinator's own address not skipped.
AcceptableOwnToo(c, short_addr) == short_addr \notin DOMAIN c.devices

\* Acceptable, were an address that devices holds not skipped.
AcceptableTaken(c, short_addr) == short_addr # c.short_addr

\* The draws that end the allocation loop.
Acceptable(c, short_addr) ==
    /\ short_addr # c.short_addr
    /\ short_addr \notin DOMAIN c.devices

\* devices[short_addr] = long_addr
Assign(devices, short_addr, long_addr) ==
    [s \in DOMAIN devices \cup {short_addr} |->
        IF s = short_addr THEN long_addr ELSE devices[s]]

\* The first part of send_association_response: the short address and the
\* status of the reply, and the allocation.  pick is the draw of randint
\* that ends the loop: the record is marked not ok when the loop goes on
\* past pick, and hung when no draw can end it.
AssociationDecision(c, long_addr, access_denied, pick) ==
    LET looked == IF access_denied THEN Unassigned
                  ELSE LookupShort(c.devices, long_addr)
    IN IF access_denied
       THEN [c |-> c, short_addr |-> Unassigned, status |-> ST_access_denied]
       ELSE IF looked > AddrTop
       THEN IF AtCapacity(c.devices)
            THEN [c |-> c, short_addr |-> looked, status |-> ST_pan_at_capacity]
            ELSE IF \A s \in 0..AddrTop : ~Acceptable(c, s)
            THEN [c |-> [c EXCEPT !.hung = TRUE],
                  short_addr |-> looked, status |-> ST_assoc_success]
            ELSE IF ~Acceptable(c, pick)
            THEN [c |-> [c EXCEPT !.ok = FALSE],
                  short_addr |-> looked, status |-> ST_assoc_success]
            ELSE [c |-> CoordSaveConfig(
                            [c EXCEPT !.devices = Assign(@, pick, long_addr)]),
                  short_addr |-> pick, status |-> ST_assoc_success]
       ELSE [c |-> c, short_addr |-> looked, status |-> ST_assoc_success]

\* send_association_response, at time t
SendAssociationResponse(c, long_addr, access_denied, pick, t) ==
    LET d == AssociationDecision(c, long_addr, access_denied, pick)
        packet == [MHR(FT_cmd, d.c.dsn) EXCEPT
                      !.req_ack = 1,
                      !.panid_compression = 1,
                      !.dst_mode = AM_long,
                      !.src_mode = AM_long,
                      !.dst_panid = d.c.panid,
                      !.dst_addr = long_addr,
                      !.src_panid = d.c.panid,
                      !.src_addr = d.c.long_addr,
                      !.identifier = ID_association_response,
                      !.short_addr = d.short_addr,
                      !.status = d.status]
    IN IF d.c.hung \/ ~d.c.ok THEN d.c
       ELSE [SendPacketWaitAck(d.c, packet, t) EXCEPT
                !.dsn = (d.c.dsn + 1) % SeqMod]

\* bcn_request_handler
BcnRequestHandler(c, mhr) ==
    IF mhr.src_mode # AM_none THEN c
    ELSE IF mhr.dst_mode # AM_short THEN c
    ELSE IF mhr.dst_panid # BroadcastPanid THEN c
    ELSE IF mhr.dst_addr # Unassigned THEN c
    ELSE SendBcn(c)

\* The checks association_request_handler makes before it acks.
AssociationRequestValid(c, mhr) ==
    /\ mhr.req_ack = 1
    /\ mhr.dst_mode = AM_short
    /\ mhr.src_mode = AM_long
    /\ mhr.dst_panid = c.panid
    /\ mhr.dst_addr = c.short_addr
    /\ mhr.src_panid = BroadcastPanid

\* The long addresses that have a short address: devices.values()
Values(devices) == {devices[s] : s \in DOMAIN devices}

\* association_request_handler, were a second requester not turned away.
AssociationRequestHandlerNoDeny(c, mhr, pick, t) ==
    IF ~AssociationRequestValid(c, mhr) THEN c
    ELSE LET a == SendAck(c, mhr.seq_num)
         IN IF mhr.src_addr \in Values(a.devices)
            THEN SendAssociationResponse(a, mhr.src_addr, FALSE, pick, t)
            ELSE WaitAssociate(a, mhr.src_addr, t)

\* association_request_handler, were the ack sent after the reply.
AssociationRequestHandlerAckLast(c, mhr, pick, t) ==
    IF ~AssociationRequestValid(c, mhr) THEN c
    ELSE SendAck(IF c.associate # <<>> /\ c.associate # <<mhr.src_addr>>
                 THEN SendAssociationResponse(c, mhr.src_addr, TRUE, pick, t)
                 ELSE IF mhr.src_addr \in Values(c.devices)
                 THEN SendAssociationResponse(c, mhr.src_addr, FALSE, pick, t)
                 ELSE WaitAssociate(c, mhr.src_addr, t),
                 mhr.seq_num)

\* association_request_handler, at time t
AssociationRequestHandler(c, mhr, pick, t) ==
    IF ~AssociationRequestValid(c, mhr) THEN c
    ELSE LET a == SendAck(c, mhr.seq_num)
         IN IF a.associate # <<>> /\ a.associate # <<mhr.src_addr>>
            THEN SendAssociationResponse(a, mhr.src_addr, TRUE, pick, t)
            ELSE IF mhr.src_addr \in Values(a.devices)
            THEN SendAssociationResponse(a, mhr.src_addr, FALSE, pick, t)
            ELSE WaitAssociate(a, mhr.src_addr, t)

\* cmd_handler
CoordCmdHandler(c, mhr, pick, t) ==
    IF mhr.identifier = ID_bcn_request THEN BcnRequestHandler(c, mhr)
    ELSE IF mhr.identifier = ID_association_request
    THEN AssociationRequestHandler(c, mhr, pick, t)
    ELSE c

\* packet_handler, at time t
CoordPacketHandler(c, mhr, pick, t) ==
    IF mhr.ftype = FT_ack THEN AckHandler(c, mhr)
    ELSE IF mhr.ftype = FT_cmd THEN CoordCmdHandler(c, mhr, pick, t)
    ELSE c

\* button_handler, were the approval left pending after the reply
CoordButtonHandlerKeeps(c, button, pick, t) ==
    IF button = 1 /\ c.associate # <<>>
    THEN SendAssociationResponse(c, c.associate[1], FALSE, pick, t)
    ELSE c

\* button_handler, at time t
CoordButtonHandler(c, button, pick, t) ==
    IF button = 1 /\ c.associate # <<>>
    THEN LET s == SendAssociationResponse(c, c.associate[1], FALSE, pick, t)
         IN IF s.hung \/ ~s.ok THEN s
            ELSE EndBlink([s EXCEPT !.associate = <<>>], LedsGreen)
    ELSE c

\* The approval deadline, were the comparison strict.
AssociateTimeoutStepStrict(c, t) ==
    IF c.associate # <<>> /\ c.associate_start + AssociateTimeout < t
    THEN EndBlink([SendAssociationResponse(c, c.associate[1], TRUE, 0, t)
                      EXCEPT !.associate = <<>>],
                  LedsGreen)
    ELSE c

\* The approval deadline of loop(), with now read as t.
AssociateTimeoutStep(c, t) ==
    IF c.associate # <<>> /\ c.associate_start + AssociateTimeout <= t
    THEN EndBlink([SendAssociationResponse(c, c.associate[1], TRUE, 0, t)
                      EXCEPT !.associate = <<>>],
                  LedsGreen)
    ELSE c

\* The blink step of loop(), with now read as t.
BlinkStep(c, t) ==
    IF c.blink # 0 /\ c.blink_last + BlinkPeriod <= t
    THEN [c EXCEPT !.blink_last = t]
    ELSE c

\* What follows the dequeue in an iteration of loop(): the three deadlines.
CoordDeadlines(c, t) ==
    IF c.hung \/ ~c.ok THEN c
    ELSE RetryStep(BlinkStep(AssociateTimeoutStep(c, t), t), t)

\* The handler of the event dequeued.
CoordDispatch(c, ev, pick, t) ==
    IF ev.kind = "on_packet" THEN CoordPacketHandler(c, ev.frame, pick, t)
    ELSE IF ev.kind = "on_button" THEN CoordButtonHandler(c, ev.button, pick, t)
    ELSE c

\* The first half of an iteration of Coordinator.loop: the dequeue and the
\* handler, at time t.
CoordHandled(c, ev, pick, t) ==
    CoordDispatch([c EXCEPT !.sent = <<>>, !.overwrote = FALSE,
                            !.gave_up = FALSE, !.dropped = <<>>],
                  ev, pick, t)

\* One iteration of Coordinator.loop that ends at time t.
CoordIteration(c, ev, pick, t) ==
    CoordDeadlines(CoordHandled(c, ev, pick, t), t)

----------------------------------------------------------------------------
(* The device.                                                             *)

\* Device.AssocState
AS_idle == 0
AS_wait_response == 1

\* save_config: device.ini takes the association held in memory.
DeviceSaveConfig(d) ==
    [d EXCEPT !.saved = <<[coordinator |-> d.coordinator,
                           panid |-> d.panid,
                           short_addr |-> d.short_addr]>>]

\* send_beacon_request without the step of dsn
SendBeaconRequestNoStep(d) ==
    LET packet == [MHR(FT_cmd, d.dsn) EXCEPT
                      !.dst_mode = AM_short,
                      !.dst_panid = BroadcastPanid,
                      !.dst_addr = Unassigned,
                      !.identifier = ID_bcn_request]
    IN RadioSend(d, packet)

\* send_beacon_request
SendBeaconRequest(d) ==
    LET packet == [MHR(FT_cmd, d.dsn) EXCEPT
                      !.dst_mode = AM_short,
                      !.dst_panid = BroadcastPanid,
                      !.dst_addr = Unassigned,
                      !.identifier = ID_bcn_request]
    IN [RadioSend(d, packet) EXCEPT !.dsn = (d.dsn + 1) % SeqMod]

\* send_assoc_request, at time t
SendAssocRequest(d, panid, short_addr, t) ==
    LET w == [d EXCEPT !.assoc_state = AS_wait_response, !.assoc_start = t]
        packet == [MHR(FT_cmd, w.dsn) EXCEPT
                      !.req_ack = 1,
                      !.dst_mode = AM_short,
                      !.src_mode = AM_long,
                      !.dst_panid = panid,
                      !.dst_addr = short_addr,
                      !.src_panid = BroadcastPanid,
                      !.src_addr = w.long_addr,
                      !.identifier = ID_association_request,
                      !.capability =
                          BitOr(Shl(1, CAP_power_source),
                                BitOr(Shl(1, CAP_idle_recv),
                                      Shl(1, CAP_allocate_address)))]
    IN [SendPacketWaitAck(w, packet, t) EXCEPT !.dsn = (w.dsn + 1) % SeqMod]

\* service in bcn.services
InServices(service, services) ==
    \E i \in DOMAIN services : services[i] = service

\* The checks bcn_handler makes before it sends the association request.
\* The superframe is masked with the values of BCN.Superframe's members.
BeaconAccepted(d, mhr) ==
    /\ mhr.src_mode = AM_short
    /\ mhr.dst_mode = AM_none
    /\ ~(mhr.src_panid > PanidTop)
    /\ ~(mhr.src_addr > AddrTop)
    /\ BitAnd(mhr.superframe, BCN_pan_coordinator) # 0
    /\ BitAnd(mhr.superframe, BCN_association_permit) # 0
    /\ ~(d.ssid # <<>> /\ d.ssid # <<mhr.ssid>>)
    /\ InServices(d.service, mhr.services)

\* bcn_handler, at time t
BcnHandler(d, mhr, t) ==
    IF BeaconAccepted(d, mhr)
    THEN SendAssocRequest(d, mhr.src_panid, mhr.src_addr, t)
    ELSE d

\* The checks of association_response_handler, were the destination not
\* compared with the device's long address.
AssociationResponseValidAnyDst(d, mhr) ==
    /\ d.assoc_state = AS_wait_response
    /\ mhr.req_ack = 1
    /\ mhr.dst_mode = AM_long
    /\ mhr.src_mode = AM_long

\* The checks association_response_handler makes before it acks.
AssociationResponseValid(d, mhr) ==
    /\ d.assoc_state = AS_wait_response
    /\ mhr.req_ack = 1
    /\ mhr.dst_mode = AM_long
    /\ mhr.src_mode = AM_long
    /\ mhr.dst_addr = d.long_addr

\* association_response_handler
AssociationResponseHandler(d, mhr) ==
    IF ~AssociationResponseValid(d, mhr) THEN d
    ELSE LET a == SendAck(d, mhr.seq_num)
         IN [DeviceSaveConfig([a EXCEPT !.panid = mhr.dst_panid,
                                        !.coordinator = <<mhr.src_addr>>,
                                        !.short_addr = <<mhr.short_addr>>])
                EXCEPT !.assoc_state = AS_idle]

\* cmd_handler
DeviceCmdHandler(d, mhr) ==
    IF mhr.identifier = ID_association_response
    THEN AssociationResponseHandler(d, mhr)
    ELSE d

\* packet_handler, at time t
DevicePacketHandler(d, mhr, t) ==
    IF mhr.ftype = FT_ack THEN AckHandler(d, mhr)
    ELSE IF mhr.ftype = FT_bcn THEN BcnHandler(d, mhr, t)
    ELSE IF mhr.ftype = FT_cmd THEN DeviceCmdHandler(d, mhr)
    ELSE d

\* button_handler
DeviceButtonHandler(d, button) ==
    IF button = 1 THEN SendBeaconRequest(d) ELSE d

\* The response deadline of loop(), with now read as t.
DeviceTimeoutStep(d, t) ==
    IF d.assoc_state # AS_idle /\ d.assoc_start + DeviceTimeout <= t
    THEN [d EXCEPT !.assoc_state = AS_idle]
    ELSE d

\* What follows the dequeue in an iteration of loop(): the two deadlines.
DeviceDeadlines(d, t) == DeviceTimeoutStep(RetryStep(d, t), t)

\* The handler of the event dequeued.
DeviceDispatch(d, ev, t) ==
    IF ev.kind = "on_packet" THEN DevicePacketHandler(d, ev.frame, t)
    ELSE IF ev.kind = "on_button" THEN DeviceButtonHandler(d, ev.button)
    ELSE d

\* The first half of an iteration of Device.loop: the dequeue and the
\* handler, at time t.
DeviceHandled(d, ev, t) ==
    DeviceDispatch([d EXCEPT !.sent = <<>>, !.overwrote = FALSE,
                             !.gave_up = FALSE, !.dropped = <<>>],
                   ev, t)

\* One iteration of Device.loop that ends at time t.
DeviceIteration(d, ev, t) ==
    DeviceDeadlines(DeviceHandled(d, ev, t), t)

----------------------------------------------------------------------------
(* The codec of the MAC header (src/zag.py), on bytes.  A header is the    *)
(* MHR object: frame_control, seq_num and the four address fields.  A      *)
(* field the object has is <<v>> for a number v, a long address is its 8   *)
(* bytes, and a field the object does not have is Unset.                   *)

Unset == <<>>

\* MHR.Version.version_2006
Version_2006 == 1

\* MHR.FrameControl: the positions of the fields of frame_control
FC_type == 0
FC_req_ack == 5
FC_panid_compression == 6
FC_dst_mode == 10
FC_version == 12
FC_src_mode == 14

\* (x >> pos) & mask
Field(x, pos, mask) == BitAnd(x \div Shl(1, pos), mask)

\* struct.pack('!B', x), struct.pack('!H', x)
U8(x) == <<x>>
U16(x) == <<x \div 256, x % 256>>

\* struct.unpack_from('!H', data, offset), and whether the buffer has the
\* n bytes an unpack_from at offset needs (else it raises struct.error)
Get16(data, offset) == data[offset + 1] * 256 + data[offset + 2]
Has(data, offset, n) == Len(data) >= offset + n

\* data[a:b]
Slice(data, a, b) ==
    SubSeq(data, a + 1, IF b < Len(data) THEN b ELSE Len(data))

\* MHR.__init__
MHRNew ==
    [frame_control |-> 0, seq_num |-> 0, dst_panid |-> Unset,
     dst_addr |-> Unset, src_panid |-> Unset, src_addr |-> Unset]

Addressed == {AM_short, AM_long}

\* MHR.encode: the bytes, or the exception MHR.AddrMode raises on a mode
\* it does not name.
MHR_encode(m) ==
    LET dst_mode == Field(m.frame_control, FC_dst_mode, 3)
        src_mode == Field(m.frame_control, FC_src_mode, 3)
        panid_compression == Field(m.frame_control, FC_panid_compression, 1)
        head == U16(m.frame_control) \o U8(m.seq_num)
        dst_panid == IF dst_mode \in Addressed THEN U16(m.dst_panid[1])
                     ELSE <<>>
        dst_addr == IF dst_mode = AM_short THEN U16(m.dst_addr[1])
                    ELSE IF dst_mode = AM_long THEN m.dst_addr ELSE <<>>
        src_panid == IF src_mode \in Addressed /\ panid_compression = 0
                     THEN U16(m.src_panid[1]) ELSE <<>>
        src_addr == IF src_mode = AM_short THEN U16(m.src_addr[1])
                    ELSE IF src_mode = AM_long THEN m.src_addr ELSE <<>>
    IN IF dst_mode \notin {AM_none} \cup Addressed
          \/ src_mode \notin {AM_none} \cup Addressed
       THEN [raised |-> "ValueError", data |-> <<>>]
       ELSE [raised |-> "none",
             data |-> head \o dst_panid \o dst_addr \o src_panid \o src_addr]

\* MHR.decode runs down the buffer: s is the header read so far, the
\* offset reached and the exception raised, "none" while none is.
DecodeDst(s, data) ==
    LET dst_mode == Field(s.mhr.frame_control, FC_dst_mode, 3)
    IN IF dst_mode \notin {AM_none} \cup Addressed
       THEN [s EXCEPT !.err = "ValueError"]
       ELSE IF dst_mode = AM_none THEN s
       ELSE IF ~Has(data, s.offset, 2) THEN [s EXCEPT !.err = "struct.error"]
       ELSE LET p == [s EXCEPT !.mhr.dst_panid = <<Get16(data, s.offset)>>,
                               !.offset = @ + 2]
            IN IF dst_mode = AM_long
               THEN [p EXCEPT !.mhr.dst_addr =
                                  Slice(data, p.offset, p.offset + 8),
                              !.offset = @ + 8]
               ELSE IF ~Has(data, p.offset, 2)
               THEN [p EXCEPT !.err = "struct.error"]
               ELSE [p EXCEPT !.mhr.dst_addr = <<Get16(data, p.offset)>>,
                              !.offset = @ + 2]

DecodeSrcPanid(s, data) ==
    LET dst_mode == Field(s.mhr.frame_control, FC_dst_mode, 3)
        src_mode == Field(s.mhr.frame_control, FC_src_mode, 3)
        panid_compression ==
            Field(s.mhr.frame_control, FC_panid_compression, 1)
    IN IF s.err # "none" THEN s
       ELSE IF src_mode \notin {AM_none} \cup Addressed
       THEN [s EXCEPT !.err = "ValueError"]
       ELSE IF src_mode = AM_none THEN s
       ELSE IF panid_compression = 1 /\ dst_mode \in Addressed
       THEN [s EXCEPT !.mhr.src_panid = s.mhr.dst_panid]
       ELSE IF ~Has(data, s.offset, 2) THEN [s EXCEPT !.err = "struct.error"]
       ELSE [s EXCEPT !.mhr.src_panid = <<Get16(data, s.offset)>>,
                      !.offset = @ + 2]

DecodeSrcAddr(s, data) ==
    LET src_mode == Field(s.mhr.frame_control, FC_src_mode, 3)
    IN IF s.err # "none" THEN s
       ELSE IF src_mode = AM_short
       THEN IF ~Has(data, s.offset, 2)
            THEN [s EXCEPT !.err = "struct.error"]
            ELSE [s EXCEPT !.mhr.src_addr = <<Get16(data, s.offset)>>,
                           !.offset = @ + 2]
       ELSE IF src_mode = AM_long
       THEN [s EXCEPT !.mhr.src_addr =
                          Slice(data, s.offset, s.offset + 8),
                      !.offset = @ + 8]
       ELSE s

\* What MHR.decode does: it returns the header and the rest of the
\* buffer ("tuple"), returns None, or raises the exception named.
Decoded(returned, mhr, payload) ==
    [returned |-> returned, mhr |-> mhr, payload |-> payload]

\* MHR.decode
MHR_decode(data) ==
    IF ~Has(data, 0, 3) THEN Decoded("struct.error", MHRNew, <<>>)
    ELSE LET mhr == [MHRNew EXCEPT !.frame_control = Get16(data, 0),
                                   !.seq_num = data[3]]
             s == DecodeSrcAddr(
                      DecodeSrcPanid(
                          DecodeDst([mhr |-> mhr, offset |-> 3,
                                     err |-> "none"], data),
                          data),
                      data)
         IN IF Field(mhr.frame_control, FC_version, 3) > Version_2006
            THEN Decoded("None", MHRNew, <<>>)
            ELSE IF s.err # "none" THEN Decoded(s.err, MHRNew, <<>>)
            ELSE Decoded("tuple", s.mhr, Slice(data, s.offset, Len(data)))

\* A header to encode, what encode returned and what decode returned of
\* that.
CodecStart(m) == [m |-> m, data |-> <<>>, out |-> <<>>]

----------------------------------------------------------------------------
(* The transport: DEV (src/zag.py), its reader thread and the tasks that   *)
(* call DEV.write.  wire holds the bytes the radio has sent and the reader *)
(* has not read; a read returns when it has what it asked for or when the  *)
(* serial timeout ends it, with any number of the bytes that wait.  The    *)
(* queues hold messages as [kind, data], data being the payload as framed. *)
(* Of what happened, since keeps the bytes read while do_sync was set,     *)
(* short_header says that the last iteration of the reader read less than  *)
(* a header, framed lists the messages read completely, dequeued the       *)
(* events the role took and taken the responses the callers of write took; *)
(* requests lists the callers whose request the radio has not answered.    *)

\* b'\xAAZAG', header_struct.size, DEV.Response and DEV.Event
Magic == <<170, 90, 65, 71>>
HeaderSize == 2
RSP_ok == 128
RSP_err == 129
EV_on_packet == 192
EV_on_button == 193

\* The tasks that call DEV.write.
Tasks == {1, 2}

Min(a, b) == IF a < b THEN a ELSE b
Take(s, n) == SubSeq(s, 1, n)
Drop(s, n) == SubSeq(s, n + 1, Len(s))
EndsWith(s, m) == Len(s) >= Len(m) /\ Drop(s, Len(s) - Len(m)) = m

\* DEV.__init__, with the bytes the radio sends in return.
DevInit(wire) ==
    [wire |-> wire, do_sync |-> TRUE, exc |-> "none",
     reader_queue |-> <<>>, event_queue |-> <<>>,
     since |-> <<>>, short_header |-> FALSE, framed |-> <<>>,
     dequeued |-> <<>>, taken |-> <<>>, requests |-> <<>>,
     task |-> [t \in Tasks |-> "idle"], got |-> [t \in Tasks |-> <<>>]]

\* serial.read_until(b'\xAAZAG'): the numbers of bytes it may return.  It
\* returns as soon as what it has read in this call ends with the magic.
SyncReads(d) ==
    {n \in 0..Len(d.wire) :
        \A j \in 1..(n - 1) : ~EndsWith(Take(d.wire, j), Magic)}

\* The do_sync branch of reader() when read_until returns n bytes: none,
\* the magic is written again; no magic at their end, they are dropped.
Sync(d, n) ==
    LET data == Take(d.wire, n)
    IN IF n = 0 THEN d
       ELSE [d EXCEPT !.wire = Drop(@, n),
                      !.since = @ \o data,
                      !.do_sync = ~EndsWith(data, Magic)]

\* The end of reader(): the message goes to the queue its kind selects.
\* DEV.Event(kind), DEV.Response(kind) and struct.unpack raise on what
\* they do not know.
Deliver(d, kind, data) ==
    LET msg == [kind |-> kind, data |-> data]
        f == [d EXCEPT !.framed = Append(@, msg)]
    IN IF BitAnd(kind, 192) = 192
       THEN IF kind \notin {EV_on_packet, EV_on_button}
            THEN [f EXCEPT !.exc = "ValueError"]
            ELSE IF kind = EV_on_packet /\ Len(data) < 2
            THEN [f EXCEPT !.exc = "struct.error"]
            ELSE IF kind = EV_on_button /\ Len(data) # 1
            THEN [f EXCEPT !.exc = "struct.error"]
            ELSE [f EXCEPT !.event_queue = Append(@, msg)]
       ELSE IF kind \notin {RSP_ok, RSP_err}
            THEN [f EXCEPT !.exc = "ValueError"]
            ELSE [f EXCEPT !.reader_queue = Append(@, msg)]

\* The numbers of bytes serial.read(data_len) may return after a header
\* read of h bytes.
PayloadReads(d, h) ==
    IF h # HeaderSize THEN {0}
    ELSE 0..Min(d.wire[2], Len(d.wire) - HeaderSize)

\* reader() past the do_sync branch: the header read returns h bytes and
\* the payload read m.  A short read ends the iteration.
ReadMessage(d, h, m) ==
    IF h # HeaderSize
    THEN [d EXCEPT !.wire = Drop(@, h), !.short_header = TRUE]
    ELSE LET response == d.wire[1]
             data_len == d.wire[2]
             rest == Drop(d.wire, HeaderSize)
             r == [d EXCEPT !.wire = Drop(rest, m)]
         IN IF m # data_len THEN r
            ELSE Deliver(r, response, Take(rest, m))

\* DEV.write up to the wait: the request of task t is written.
Write(d, t) ==
    [d EXCEPT !.requests = Append(@, t), !.task[t] = "waiting"]

\* DEV.write from the wait on: task t takes the head of reader_queue, and
\* returns its payload or raises ResponseErr.
Response(d, t) ==
    LET msg == Head(d.reader_queue)
    IN [d EXCEPT !.reader_queue = Tail(@),
                 !.taken = Append(@, msg),
                 !.got[t] = msg.data,
                 !.task[t] = IF msg.kind = RSP_err THEN "ResponseErr"
                             ELSE "returned"]

----------------------------------------------------------------------------
(* The state after construction.                                           *)

\* The PAN-ID and beacon contents of coordinator.ini, and the value drawn
\* for the sequence numbers: the last one before they wrap.
CoordPanids == {48879}
SsidSample == 1
SsidOther == 2
SeqStarts == {255}

\* The devices sections coordinator.ini may hold at boot: none and all of
\* the assignable addresses taken.
InitDevices ==
    {[s \in 1..n |-> s] : n \in {0, AddrTop}}

\* Coordinator.__init__.  The times and counters __init__ leaves unset are
\* given a value no guard reads before the code sets it.
CoordInit(panid, devices, dsn, bsn) ==
    [long_addr |-> CoordLong, short_addr |-> 0, panid |-> panid,
     ssid |-> SsidSample, services |-> <<0>>,
     devices |-> devices, saved |-> devices,
     associate |-> <<>>, associate_start |-> Now - Past,
     packet |-> <<>>, packet_last |-> Now - Past, packet_retry |-> 0, packet_seq |-> 0,
     dsn |-> dsn, bsn |-> bsn, blink |-> 0, blink_last |-> Now - Past,
     sent |-> <<>>, ptx |-> 0, overwrote |-> FALSE, gave_up |-> FALSE,
     dropped |-> <<>>, fail_at |-> 0, raised |-> <<>>, exc |-> "none",
     hung |-> FALSE, ok |-> TRUE, episode_start |-> Now - Past]

\* Device.__init__: not yet associated, or associated by an earlier run.
DeviceInit(associated, ssid, dsn) ==
    [long_addr |-> 1,
     panid |-> IF associated THEN 48879 ELSE BroadcastPanid,
     coordinator |-> IF associated THEN <<CoordLong>> ELSE <<>>,
     short_addr |-> IF associated THEN <<1>> ELSE <<>>,
     saved |-> IF associated
               THEN <<[coordinator |-> <<CoordLong>>, panid |-> 48879,
                       short_addr |-> <<1>>]>>
               ELSE <<>>,
     service |-> 0, ssid |-> ssid,
     assoc_state |-> AS_idle, assoc_start |-> Now - Past,
     episode_start |-> Now - Past,
     packet |-> <<>>, packet_last |-> Now - Past, packet_retry |-> 0, packet_seq |-> 0,
     dsn |-> dsn,
     sent |-> <<>>, ptx |-> 0, overwrote |-> FALSE, gave_up |-> FALSE,
     dropped |-> <<>>, fail_at |-> 0, raised |-> <<>>, exc |-> "none"]

\* The devices of the system and the frames on the air, when one role runs
\* alone: none.
NetIdle == [devices |-> <<>>, air |-> {}]

\* The queue's Empty, and the events the reader enqueues.
Empty == [kind |-> "Empty", frame |-> MHR(FT_data, 0), button |-> 0]
OnPacket(frame) == [kind |-> "on_packet", frame |-> frame, button |-> 0]
OnButton(button) == [kind |-> "on_button", frame |-> MHR(FT_data, 0), button |-> button]

Init ==
    /\ role \in {"coordinator", "device"}
    /\ nev = 0
    /\ coord \in {CoordInit(p, dv, s, 255) :
                     p \in CoordPanids,
                     dv \in IF role = "coordinator" THEN InitDevices ELSE {<<>>},
                     s \in IF role = "coordinator" THEN SeqStarts ELSE {0}}
    /\ device \in {DeviceInit(a, ss, s) :
                     a \in IF role = "device" THEN BOOLEAN ELSE {FALSE},
                     ss \in IF role = "device" THEN {<<>>, <<SsidSample>>} ELSE {<<>>},
                     s \in IF role = "device" THEN SeqStarts ELSE {0}}
    /\ dev = DevInit(<<>>)
    /\ codec = CodecStart(MHRNew)
    /\ net = NetIdle

----------------------------------------------------------------------------
(* The frames the air may carry to a role.                                 *)

\* The association request of the device with long address src.
AssociationRequest(panid, src, seq) ==
    [MHR(FT_cmd, seq) EXCEPT
        !.req_ack = 1, !.dst_mode = AM_short, !.src_mode = AM_long,
        !.dst_panid = panid, !.dst_addr = 0,
        !.src_panid = BroadcastPanid, !.src_addr = src,
        !.identifier = ID_association_request,
        !.capability = 140]

\* A beacon request, as send_beacon_request builds it.
BeaconRequest(seq) ==
    [MHR(FT_cmd, seq) EXCEPT
        !.dst_mode = AM_short, !.dst_panid = BroadcastPanid,
        !.dst_addr = Unassigned, !.identifier = ID_bcn_request]

\* The sequence number of the requests received.
PeerSeq == 7

\* The packets the coordinator's queue may deliver in state c.
CoordPackets(c) ==
    LET req == AssociationRequest(c.panid, 1, PeerSeq)
    IN {AssociationRequest(c.panid, l, PeerSeq) : l \in LongAddrs}
       \cup {[req EXCEPT !.req_ack = 0],
             [req EXCEPT !.dst_mode = AM_long],
             [req EXCEPT !.src_mode = AM_short],
             [req EXCEPT !.dst_panid = BroadcastPanid],
             [req EXCEPT !.dst_addr = 1],
             [req EXCEPT !.src_panid = c.panid]}
       \cup {BeaconRequest(PeerSeq),
             [BeaconRequest(PeerSeq) EXCEPT !.dst_panid = c.panid]}
       \cup {MHR(FT_ack, c.packet_seq),
             MHR(FT_ack, (c.packet_seq + 1) % SeqMod),
             MHR(FT_data, PeerSeq)}

CoordEvents(c) ==
    {OnPacket(f) : f \in CoordPackets(c)} \cup {OnButton(b) : b \in {1, 2}}

\* A beacon of the coordinator with the given superframe and extension.
Beacon(superframe, ssid, services) ==
    [MHR(FT_bcn, PeerSeq) EXCEPT
        !.src_mode = AM_short, !.src_panid = 48879, !.src_addr = 0,
        !.superframe = superframe, !.ssid = ssid, !.services = services]

\* An association response of the coordinator to the device dst.
AssociationResponse(dst, short_addr, status) ==
    [MHR(FT_cmd, PeerSeq) EXCEPT
        !.req_ack = 1, !.panid_compression = 1,
        !.dst_mode = AM_long, !.src_mode = AM_long,
        !.dst_panid = 48879, !.dst_addr = dst,
        !.src_panid = 48879, !.src_addr = CoordLong,
        !.identifier = ID_association_response,
        !.short_addr = short_addr, !.status = status]

\* The packets the device's queue may deliver in state d.  53247 is the
\* superframe send_bcn builds (0xCFFF), 49152 has only bits 14 and 15 set
\* (0xC000) and 4095 only the two orders (0x0FFF).
DevicePackets(d) ==
    LET bcn == Beacon(53247, SsidSample, <<0>>)
    IN {bcn,
        Beacon(49152, SsidSample, <<0>>),
        Beacon(4095, SsidSample, <<0>>),
        Beacon(53247, SsidOther, <<0>>),
        Beacon(53247, SsidSample, <<5>>),
        [bcn EXCEPT !.src_addr = Unassigned],
        [bcn EXCEPT !.src_panid = BroadcastPanid]}
       \cup {AssociationResponse(d.long_addr, 2, ST_assoc_success),
             AssociationResponse(d.long_addr, Unassigned, ST_access_denied),
             AssociationResponse(d.long_addr, Unassigned, ST_pan_at_capacity),
             AssociationResponse(2, 2, ST_assoc_success),
             [AssociationResponse(d.long_addr, 2, ST_assoc_success)
                 EXCEPT !.req_ack = 0]}
       \cup {MHR(FT_ack, d.packet_seq),
             MHR(FT_ack, (d.packet_seq + 1) % SeqMod),
             MHR(FT_data, PeerSeq)}

DeviceEvents(d) ==
    {OnPacket(f) : f \in DevicePackets(d)} \cup {OnButton(b) : b \in {1, 2}}

----------------------------------------------------------------------------
(* The actions: one iteration of the running role's loop.                  *)

\* The time that passes from one reading of the clock to the next: an
\* event may arrive at once or within the quantum, Empty is raised after
\* the quantum.
Elapsed(ev) == IF ev = Empty THEN {QueueTimeout} ELSE {0, QueueTimeout}

\* A time held, dt later.
Back(time, dt) == IF time - dt < Now - Past THEN Now - Past ELSE time - dt

\* The coordinator dt later.
CoordElapse(c, dt) ==
    [c EXCEPT !.associate_start = Back(@, dt),
              !.blink_last = Back(@, dt),
              !.packet_last = Back(@, dt),
              !.episode_start = Back(@, dt)]

\* The device dt later.
DeviceElapse(d, dt) ==
    [d EXCEPT !.assoc_start = Back(@, dt),
              !.episode_start = Back(@, dt),
              !.packet_last = Back(@, dt)]

\* The state an iteration leaves.  The guards of loop() read a timestamp
\* only behind the field that says its timer runs (self.associate and ...,
\* self.blink and ..., self.packet and ...), and the code that sets such a
\* field sets the timestamp with it: the timestamp of a timer that does
\* not run is held as the one of a timer that was never set.
Stopped(running, time) == IF running THEN time ELSE Now - Past

CoordHeld(c) ==
    [c EXCEPT !.associate_start = Stopped(c.associate # <<>>, @),
              !.episode_start = Stopped(c.associate # <<>>, @),
              !.blink_last = Stopped(c.blink # 0, @),
              !.packet_last = Stopped(c.packet # <<>>, @)]

DeviceHeld(d) ==
    [d EXCEPT !.assoc_start = Stopped(d.assoc_state # AS_idle, @),
              !.episode_start = Stopped(d.assoc_state # AS_idle, @),
              !.packet_last = Stopped(d.packet # <<>>, @)]

\* The draws of randint(0, 0xFFFD) that matter: button_handler alone can
\* reach the allocation loop.
Draws(c, ev) ==
    IF ev = OnButton(1) /\ c.associate # <<>> THEN 0..AddrTop ELSE {0}

\* The time the approval under way began: an iteration that leaves the
\* coordinator waiting for an approval it was not waiting for begins one.
Episode(before, after) ==
    [after EXCEPT !.episode_start =
        IF after.associate # <<>> /\ after.associate # before.associate
        THEN Now ELSE @]

\* The coordinator after the iteration of loop() that dequeues ev, dt
\* after the iteration before, and after the handler of that iteration.
CoordResult(c, ev, dt, pick) ==
    Episode(c, CoordIteration(CoordElapse(c, dt), ev, pick, Now))

CoordAfterHandler(c, ev, dt, pick) ==
    CoordHandled(CoordElapse(c, dt), ev, pick, Now)

\* The time the device's stay in WaitResponse began: an iteration that
\* takes the device from Idle to WaitResponse begins one.
WaitEpisode(before, after) ==
    [after EXCEPT !.episode_start =
        IF after.assoc_state # AS_idle /\ before.assoc_state = AS_idle
        THEN Now ELSE @]

\* The device after the iteration of loop() that dequeues ev, dt after the
\* iteration before.
DeviceResult(d, ev, dt) ==
    WaitEpisode(d, DeviceIteration(DeviceElapse(d, dt), ev, Now))

\* The device after the handler of that iteration.
DeviceAfterHandler(d, ev, dt) ==
    DeviceHandled(DeviceElapse(d, dt), ev, Now)

\* An iteration of Coordinator.loop that dequeues ev (or times out).
CoordLoop(ev) ==
    /\ role = "coordinator"
    /\ ~coord.hung
    /\ ev # Empty => nev < MaxEvents
    /\ \E dt \in Elapsed(ev), pick \in Draws(coord, ev) :
          LET c == CoordResult(coord, ev, dt, pick)
          IN /\ c.ok
             /\ coord' = CoordHeld(c)
    /\ nev' = IF ev = Empty THEN nev ELSE nev + 1
    /\ UNCHANGED <<role, device, dev, codec, net>>

\* An iteration of Device.loop that dequeues ev (or times out).
DeviceLoop(ev) ==
    /\ role = "device"
    /\ ev # Empty => nev < MaxEvents
    /\ \E dt \in Elapsed(ev) :
          device' = DeviceHeld(DeviceResult(device, ev, dt))
    /\ nev' = IF ev = Empty THEN nev ELSE nev + 1
    /\ UNCHANGED <<role, coord, dev, codec, net>>

Next ==
    \/ \E ev \in CoordEvents(coord) \cup {Empty} : CoordLoop(ev)
    \/ \E ev \in DeviceEvents(device) \cup {Empty} : DeviceLoop(ev)

Spec == Init /\ [][Next]_vars

----------------------------------------------------------------------------
(* The coordinator alone, booted with a coordinator.ini that holds one     *)
(* device and leaves addresses free.                                       *)

PartDevices == {[s \in {k} |-> 1] : k \in 1..AddrTop}

CoordSpecInit ==
    /\ role = "coordinator"
    /\ nev = 0
    /\ coord \in {CoordInit(p, dv, s, 255) :
                     p \in CoordPanids, dv \in PartDevices, s \in SeqStarts}
    /\ device = DeviceInit(FALSE, <<>>, 0)
    /\ dev = DevInit(<<>>)
    /\ codec = CodecStart(MHRNew)
    /\ net = NetIdle

CoordNext == \E ev \in CoordEvents(coord) \cup {Empty} : CoordLoop(ev)

CoordSpec == CoordSpecInit /\ [][CoordNext]_vars

----------------------------------------------------------------------------
(* Faults: a request the radio answers with err, and a packet the decoders *)
(* refuse.  loop() catches Empty around the dequeue and the handler and    *)
(* KeyboardInterrupt around the while; any other exception leaves loop(),  *)
(* and exc names it.                                                       *)

\* The last member of CMD.Identifier.
ID_gts_request == 9

\* A received packet, by what the decoders test: the version and the
\* address modes of the frame control, whether the buffer holds the fields
\* the frame control announces and the payload the command needs, the
\* frame type and the command identifier.
Packet(version, dst_mode, src_mode, complete, ftype, identifier) ==
    [version |-> version, dst_mode |-> dst_mode, src_mode |-> src_mode,
     complete |-> complete, ftype |-> ftype, identifier |-> identifier]

\* MHR.decode: "mhr" when it returns a header, "None" when it returns
\* None, else the exception it raises.
MHRDecode(p) ==
    IF p.version > Version_2006 THEN "None"
    ELSE IF p.dst_mode \notin {AM_none, AM_short, AM_long} THEN "ValueError"
    ELSE IF p.dst_mode # AM_none /\ ~p.complete THEN "struct.error"
    ELSE IF p.src_mode \notin {AM_none, AM_short, AM_long} THEN "ValueError"
    ELSE "mhr"

\* CMD.decode: "cmd" when it returns a command, else the exception.
CMDDecode(p) ==
    IF ~p.complete THEN "struct.error"
    ELSE IF p.identifier \notin ID_association_request..ID_gts_request
         THEN "ValueError"
    ELSE "cmd"

\* The exception packet_handler raises on a command or data frame p,
\* "none" when it returns: mhr, payload = MHR.decode(packet) cannot unpack
\* None.
PacketHandlerRaises(p) ==
    LET m == MHRDecode(p)
    IN IF m = "None" THEN "TypeError"
       ELSE IF m # "mhr" THEN m
       ELSE IF p.ftype = FT_cmd /\ CMDDecode(p) # "cmd" THEN CMDDecode(p)
       ELSE "none"

\* An association request as the decoders see it, and the packets drawn
\* from it: one defect each.
RequestPacket ==
    Packet(0, AM_short, AM_long, TRUE, FT_cmd, ID_association_request)

RefusedPackets ==
    {[RequestPacket EXCEPT !.version = 2],
     [RequestPacket EXCEPT !.version = 3],
     [RequestPacket EXCEPT !.dst_mode = 1],
     [RequestPacket EXCEPT !.src_mode = 1],
     [RequestPacket EXCEPT !.complete = FALSE],
     [RequestPacket EXCEPT !.identifier = 0],
     [RequestPacket EXCEPT !.identifier = ID_gts_request + 1]}

\* The role r as the exception raised in the iteration under way leaves
\* it, if one was raised.
Outcome(r) ==
    IF r.raised # <<>>
    THEN [r.raised[1] EXCEPT !.exc = "ResponseErr", !.fail_at = 0]
    ELSE [r EXCEPT !.fail_at = 0]

\* The coordinator after the iteration of loop() in which the radio
\* answers the k-th send_packet request with err.
CoordFaulty(c, ev, dt, pick, k) ==
    Episode(c, Outcome(CoordIteration([CoordElapse(c, dt) EXCEPT !.fail_at = k],
                                      ev, pick, Now)))

\* The device after such an iteration.
DeviceFaulty(d, ev, dt, k) ==
    WaitEpisode(d, Outcome(DeviceIteration([DeviceElapse(d, dt) EXCEPT !.fail_at = k],
                                           ev, Now)))

\* The coordinator and the device after the iteration that dequeues the
\* packet p, which packet_handler raises on.
CoordRefused(c, p, dt) ==
    [CoordHandled(CoordElapse(c, dt), Empty, 0, Now)
        EXCEPT !.exc = PacketHandlerRaises(p)]

DeviceRefused(d, p, dt) ==
    [DeviceHandled(DeviceElapse(d, dt), Empty, Now)
        EXCEPT !.exc = PacketHandlerRaises(p)]

\* An iteration of Coordinator.loop in which a send_packet request is
\* answered with err.
CoordLoopErr(ev) ==
    /\ role = "coordinator"
    /\ coord.exc = "none"
    /\ ev # Empty => nev < MaxEvents
    /\ \E dt \in Elapsed(ev), pick \in Draws(coord, ev) :
          \E k \in 1..Len(CoordResult(coord, ev, dt, pick).sent) :
             LET c == CoordFaulty(coord, ev, dt, pick, k)
             IN /\ c.ok /\ ~c.hung
                /\ c.exc # "none"
                /\ coord' = CoordHeld(c)
    /\ nev' = IF ev = Empty THEN nev ELSE nev + 1
    /\ UNCHANGED <<role, device, dev, codec, net>>

\* An iteration of Coordinator.loop that dequeues a packet the decoders
\* refuse.
CoordLoopRefused(p) ==
    /\ role = "coordinator"
    /\ coord.exc = "none"
    /\ nev < MaxEvents
    /\ PacketHandlerRaises(p) # "none"
    /\ \E dt \in {0, QueueTimeout} : coord' = CoordHeld(CoordRefused(coord, p, dt))
    /\ nev' = nev + 1
    /\ UNCHANGED <<role, device, dev, codec, net>>

\* The same iterations of Device.loop.
DeviceLoopErr(ev) ==
    /\ role = "device"
    /\ device.exc = "none"
    /\ ev # Empty => nev < MaxEvents
    /\ \E dt \in Elapsed(ev) :
          \E k \in 1..Len(DeviceResult(device, ev, dt).sent) :
             LET d == DeviceFaulty(device, ev, dt, k)
             IN /\ d.exc # "none"
                /\ device' = DeviceHeld(d)
    /\ nev' = IF ev = Empty THEN nev ELSE nev + 1
    /\ UNCHANGED <<role, coord, dev, codec, net>>

DeviceLoopRefused(p) ==
    /\ role = "device"
    /\ device.exc = "none"
    /\ nev < MaxEvents
    /\ PacketHandlerRaises(p) # "none"
    /\ \E dt \in {0, QueueTimeout} : device' = DeviceHeld(DeviceRefused(device, p, dt))
    /\ nev' = nev + 1
    /\ UNCHANGED <<role, coord, dev, codec, net>>

\* loop() iterates until an exception leaves it.
FaultNext ==
    \/ \E ev \in CoordEvents(coord) \cup {Empty} :
          coord.exc = "none" /\ CoordLoop(ev)
    \/ \E ev \in CoordEvents(coord) \cup {Empty} : CoordLoopErr(ev)
    \/ \E p \in RefusedPackets : CoordLoopRefused(p)
    \/ \E ev \in DeviceEvents(device) \cup {Empty} :
          device.exc = "none" /\ DeviceLoop(ev)
    \/ \E ev \in DeviceEvents(device) \cup {Empty} : DeviceLoopErr(ev)
    \/ \E p \in RefusedPackets : DeviceLoopRefused(p)

FaultSpec == Init /\ [][FaultNext]_vars

----------------------------------------------------------------------------
(* The transport alone: the reader thread, two tasks that call DEV.write,  *)
(* the radio and the role's dequeue.                                       *)

\* What the radio sends before the magic, and the stream that follows
\* DEV.__init__: the magic and an ok response without payload.
Noises == {<<>>, <<7>>, <<170>>, <<170, 90, 65>>}
Handshake == Magic \o <<RSP_ok, 0>>

\* The messages the radio may send of itself: a button, a packet of one
\* byte with rssi and link quality, an event of a kind DEV.Event does not
\* name, a packet event too short for rssi and link quality, and a
\* message of a kind below 0x80.
Emissions ==
    {<<EV_on_button, 1, 1>>, <<EV_on_packet, 3, 9, 0, 0>>, <<194, 0>>,
     <<EV_on_packet, 1, 9>>, <<5, 0>>}

\* How many of them it sends.
MaxEmissions == MaxEvents - 1

TransportInit ==
    /\ role = "transport"
    /\ nev = 0
    /\ coord = CoordInit(48879, <<>>, 0, 0)
    /\ device = DeviceInit(FALSE, <<>>, 0)
    /\ dev \in {DevInit(noise \o Handshake) : noise \in Noises}
    /\ codec = CodecStart(MHRNew)
    /\ net = NetIdle

\* One iteration of the while of reader().
Reader ==
    /\ dev.exc = "none"
    /\ LET d == [dev EXCEPT !.short_header = FALSE]
       IN \E n \in (IF d.do_sync THEN SyncReads(d) ELSE {0}) :
             LET s == IF d.do_sync THEN Sync(d, n) ELSE d
             IN IF s.do_sync THEN dev' = s
                ELSE \E h \in 0..Min(HeaderSize, Len(s.wire)) :
                        \E m \in PayloadReads(s, h) :
                           dev' = ReadMessage(s, h, m)
    /\ UNCHANGED <<role, nev, coord, device, codec, net>>

\* A task calls DEV.write: it writes its request.
WriterWrite(t) ==
    /\ dev.task[t] = "idle"
    /\ dev' = Write(dev, t)
    /\ UNCHANGED <<role, nev, coord, device, codec, net>>

\* reader_queue.get() returns in a task that waits in DEV.write.
WriterGet(t) ==
    /\ dev.task[t] = "waiting"
    /\ dev.reader_queue # <<>>
    /\ dev' = Response(dev, t)
    /\ UNCHANGED <<role, nev, coord, device, codec, net>>

\* The radio answers the oldest request: ok, with the caller as payload.
RadioAnswer ==
    /\ dev.requests # <<>>
    /\ dev' = [dev EXCEPT !.wire = @ \o <<RSP_ok, 1, Head(dev.requests)>>,
                          !.requests = Tail(@)]
    /\ UNCHANGED <<role, nev, coord, device, codec, net>>

\* The radio sends an event.
RadioEmit(msg) ==
    /\ nev < MaxEmissions
    /\ nev' = nev + 1
    /\ dev' = [dev EXCEPT !.wire = @ \o msg]
    /\ UNCHANGED <<role, coord, device, codec, net>>

\* event_queue.get() returns in the role's loop.
RoleDequeue ==
    /\ dev.event_queue # <<>>
    /\ dev' = [dev EXCEPT !.event_queue = Tail(@),
                          !.dequeued = Append(@, Head(dev.event_queue))]
    /\ UNCHANGED <<role, nev, coord, device, codec, net>>

TransportNext ==
    \/ Reader
    \/ \E t \in Tasks : WriterWrite(t)
    \/ \E t \in Tasks : WriterGet(t)
    \/ RadioAnswer
    \/ \E msg \in Emissions : RadioEmit(msg)
    \/ RoleDequeue

TransportSpec == TransportInit /\ [][TransportNext]_vars

----------------------------------------------------------------------------
(* The codec alone: a header is encoded, and what encode returned is       *)
(* decoded.                                                                *)

\* The values drawn for the fields of a header.
FrameTypes == {FT_data, FT_cmd}
Versions == 0..Version_2006
Modes == {AM_none} \cup Addressed
Panids == {48879, BroadcastPanid}
ShortAddr == 258
LongAddr == <<1, 2, 3, 4, 5, 6, 7, 8>>
SeqNums == {0, 255}

\* frame_control of the fields given
FrameControl(ftype, req_ack, compression, dst_mode, version, src_mode) ==
    Shl(ftype, FC_type) + Shl(req_ack, FC_req_ack)
    + Shl(compression, FC_panid_compression)
    + Shl(dst_mode, FC_dst_mode) + Shl(version, FC_version)
    + Shl(src_mode, FC_src_mode)

\* The address a mode requires.
AddrOf(mode) ==
    IF mode = AM_short THEN <<ShortAddr>>
    ELSE IF mode = AM_long THEN LongAddr ELSE Unset

\* The headers of version 2006 or less with the fields their modes
\* require.  Under PAN-ID compression with both addresses the source PAN
\* is the destination PAN.
Headers ==
    {[frame_control |-> FrameControl(t, 0, c, dm, v, sm),
      seq_num |-> q,
      dst_panid |-> IF dm \in Addressed THEN <<dp>> ELSE Unset,
      dst_addr |-> AddrOf(dm),
      src_panid |-> IF sm \notin Addressed THEN Unset
                    ELSE IF c = 1 /\ dm \in Addressed THEN <<dp>> ELSE <<sp>>,
      src_addr |-> AddrOf(sm)] :
        t \in FrameTypes, c \in 0..1, dm \in Modes, v \in Versions,
        sm \in Modes, q \in SeqNums, dp \in Panids, sp \in Panids}

CodecInit ==
    /\ role = "codec"
    /\ nev = 0
    /\ coord = CoordInit(48879, <<>>, 0, 0)
    /\ device = DeviceInit(FALSE, <<>>, 0)
    /\ dev = DevInit(<<>>)
    /\ codec \in {CodecStart(m) : m \in Headers}
    /\ net = NetIdle

\* m.encode()
Encode ==
    /\ codec.data = <<>>
    /\ codec' = [codec EXCEPT !.data = <<MHR_encode(codec.m)>>]
    /\ UNCHANGED <<role, nev, coord, device, dev, net>>

\* MHR.decode(data)
Decode ==
    /\ codec.data # <<>>
    /\ codec.data[1].raised = "none"
    /\ codec.out = <<>>
    /\ codec' = [codec EXCEPT !.out = <<MHR_decode(codec.data[1].data)>>]
    /\ UNCHANGED <<role, nev, coord, device, dev, net>>

CodecNext == Encode \/ Decode

CodecSpec == CodecInit /\ [][CodecNext]_vars

----------------------------------------------------------------------------
(* The system: one coordinator and the devices, each running its loop(),   *)
(* on one radio channel.  A frame a role sends stays on the air: any other *)
(* role may dequeue it any number of times, in any order, or never.        *)
(*                                                                         *)
(* The schedule: an event is dequeued as soon as the iteration before has  *)
(* ended, and a role whose dequeue times out goes on timing out until none *)
(* of its timers runs, in one action.  So a role meets an event with its   *)
(* timers as the last event left them or with all of them run out.         *)

\* The frames an event may leave on the air, acks apart.  An ack repeats
\* the sequence number of the frame it answers: the acks are bounded with
\* the frames.
MaxFrames == 6

\* The long addresses of the devices.
SysDevices == {1, 2}
\* The coordinator, as a sender of frames.
SysCoord == 0

\* DEV.send_packet of every frame the role src sent in an iteration.
Transmit(air, src, sent) ==
    air \cup {[src |-> src, frame |-> sent[i]] : i \in DOMAIN sent}

\* The on_packet events the reader of the role dst may enqueue.
Heard(air, dst) == {OnPacket(m.frame) : m \in {a \in air : a.src # dst}}

\* A role between two iterations: what is recorded of the iteration that
\* ended is not part of the object.
Between(r) ==
    [r EXCEPT !.sent = <<>>, !.ptx = 0, !.overwrote = FALSE,
              !.gave_up = FALSE, !.dropped = <<>>,
              !.episode_start = Now - Past]

\* No timer of loop() runs.
CoordQuiet(c) == c.associate = <<>> /\ c.packet = <<>> /\ c.blink = 0
DeviceQuiet(d) == d.assoc_state = AS_idle /\ d.packet = <<>>

\* The iterations of Coordinator.loop whose dequeue times out, until no
\* timer runs: the coordinator they leave and the air with what they sent.
RECURSIVE CoordIdle(_, _)
CoordIdle(c, air) ==
    IF CoordQuiet(c) THEN [role |-> c, air |-> air]
    ELSE LET n == CoordResult(c, Empty, QueueTimeout, 0)
         IN CoordIdle(Between(CoordHeld(n)), Transmit(air, SysCoord, n.sent))

\* The same of Device.loop.
RECURSIVE DeviceIdle(_, _)
DeviceIdle(d, air) ==
    IF DeviceQuiet(d) THEN [role |-> d, air |-> air]
    ELSE LET n == DeviceResult(d, Empty, QueueTimeout)
         IN DeviceIdle(Between(DeviceHeld(n)), Transmit(air, d.long_addr, n.sent))

SysInit ==
    /\ role = "system"
    /\ nev = 0
    /\ coord = CoordInit(48879, <<>>, 255, 255)
    /\ device = DeviceInit(FALSE, <<>>, 0)
    /\ dev = DevInit(<<>>)
    /\ codec = CodecStart(MHRNew)
    /\ net = [devices |-> [l \in SysDevices |->
                              [DeviceInit(FALSE, <<SsidSample>>, l)
                                  EXCEPT !.long_addr = l]],
              air |-> {}]

\* The air has room for what an event leaves on it.
Room(air) ==
    Cardinality({a \in air : a.frame.ftype # FT_ack}) <= MaxFrames

\* An iteration of Coordinator.loop that dequeues ev in the system.
SysCoordLoop(ev) ==
    /\ role = "system"
    /\ ~coord.hung
    /\ \E pick \in Draws(coord, ev) :
          \E c \in {CoordResult(coord, ev, 0, pick)} :
          \E air \in {Transmit(net.air, SysCoord, c.sent)} :
             /\ c.ok
             /\ Room(air)
             /\ coord' = Between(CoordHeld(c))
             /\ net' = [net EXCEPT !.air = air]
    /\ UNCHANGED <<role, nev, device, dev, codec>>

\* The coordinator's dequeue times out until none of its timers runs.
SysCoordIdle ==
    /\ role = "system"
    /\ ~CoordQuiet(coord)
    /\ LET i == CoordIdle(coord, net.air)
       IN /\ coord' = i.role
          /\ net' = [net EXCEPT !.air = i.air]
    /\ UNCHANGED <<role, nev, device, dev, codec>>

\* An iteration of Device.loop of the device l that dequeues ev.
SysDeviceLoop(l, ev) ==
    /\ role = "system"
    /\ \E d \in {DeviceResult(net.devices[l], ev, 0)} :
       \E air \in {Transmit(net.air, l, d.sent)} :
          /\ Room(air)
          /\ net' = [devices |-> [net.devices EXCEPT
                                     ![l] = Between(DeviceHeld(d))],
                     air |-> air]
    /\ UNCHANGED <<role, nev, coord, device, dev, codec>>

\* The dequeue of the device l times out until none of its timers runs.
SysDeviceIdle(l) ==
    /\ role = "system"
    /\ ~DeviceQuiet(net.devices[l])
    /\ LET i == DeviceIdle(net.devices[l], net.air)
       IN net' = [devices |-> [net.devices EXCEPT ![l] = i.role],
                  air |-> i.air]
    /\ UNCHANGED <<role, nev, coord, device, dev, codec>>

SysNext ==
    \/ \E ev \in Heard(net.air, SysCoord) \cup {OnButton(1)} :
          SysCoordLoop(ev)
    \/ SysCoordIdle
    \/ \E l \in SysDevices :
          \E ev \in Heard(net.air, l) \cup {OnButton(1)} :
             SysDeviceLoop(l, ev)
    \/ \E l \in SysDevices : SysDeviceIdle(l)

SysSpec == SysInit /\ [][SysNext]_vars

----------------------------------------------------------------------------
(* What the properties below say of frames and of the inputs of an         *)
(* iteration.                                                              *)

\* An association request the coordinator c answers.
IsAssociationRequest(c, f) ==
    /\ f.ftype = FT_cmd
    /\ f.identifier = ID_association_request
    /\ f.req_ack = 1
    /\ f.dst_mode = AM_short
    /\ f.src_mode = AM_long
    /\ f.dst_panid = c.panid
    /\ f.dst_addr = 0
    /\ f.src_panid = BroadcastPanid

\* An association response to dst with the given address and status.
IsAssociationResponse(f, dst, short_addr, status) ==
    /\ f.ftype = FT_cmd
    /\ f.identifier = ID_association_response
    /\ f.dst_mode = AM_long
    /\ f.dst_addr = dst
    /\ f.short_addr = short_addr
    /\ f.status = status

IsAck(f, seq) == f.ftype = FT_ack /\ f.seq_num = seq

GreenOn(c) == BitAnd(c.blink, LedsGreen) # 0

\* The events an iteration of the coordinator's loop may dequeue.
CoordInputs == CoordEvents(coord) \cup {Empty}

\* The association requests among them.
CoordRequests == {ev \in CoordEvents(coord) :
                     ev.kind = "on_packet" /\ IsAssociationRequest(coord, ev.frame)}

----------------------------------------------------------------------------
(* The coordinator's address allocation.                                   *)

\* C1: every key of devices is a short address in [1, 0xFFFD], and no
\* iteration of the loop removes an entry of devices or maps its key to
\* another long address: what is inserted is inserted under a key that was
\* not there.
C1_DevicesKeys ==
    role = "coordinator" =>
        /\ DOMAIN coord.devices \subseteq 1..AddrTop
        /\ \A ev \in CoordInputs :
             \A dt \in Elapsed(ev), pick \in Draws(coord, ev) :
                LET r == CoordResult(coord, ev, dt, pick)
                IN r.ok =>
                     /\ DOMAIN r.devices \subseteq 1..AddrTop
                     /\ \A s \in DOMAIN coord.devices :
                           /\ s \in DOMAIN r.devices
                           /\ r.devices[s] = coord.devices[s]

\* An address has been allocated: devices is no map the coordinator booted
\* with, and the response under way carries a key of it.
C1_Witness ==
    /\ role = "coordinator"
    /\ coord.devices \notin InitDevices
    /\ \E i \in DOMAIN coord.sent :
          /\ coord.sent[i].identifier = ID_association_response
          /\ coord.sent[i].short_addr \in DOMAIN coord.devices

\* C2: an association request from L, with no approval pending and L not
\* in devices, leaves the coordinator in PendingApproval(L, now) with the
\* green blink on; button 1, with an approval of L pending and an address
\* free, adds exactly one entry short -> L under a fresh short address,
\* persists it, submits one association response to L with assoc_success
\* and that address, and clears the approval and the green blink bit.
C2_Approval ==
    role = "coordinator" =>
        /\ \A ev \in CoordRequests : \A dt \in Elapsed(ev) :
              (coord.associate = <<>>
                  /\ ev.frame.src_addr \notin Values(coord.devices)) =>
                 LET r == CoordResult(coord, ev, dt, 0)
                 IN /\ r.associate = <<ev.frame.src_addr>>
                    /\ r.associate_start = Now
                    /\ GreenOn(r)
                    /\ r.devices = coord.devices
        /\ coord.associate # <<>> => coord.associate[1] \notin Values(coord.devices)
        /\ \A dt \in Elapsed(OnButton(1)), pick \in 0..AddrTop :
              (coord.associate # <<>>
                  /\ Cardinality(DOMAIN coord.devices) < AddrTop) =>
                 LET r == CoordResult(coord, OnButton(1), dt, pick)
                     l == coord.associate[1]
                     new == DOMAIN r.devices \ DOMAIN coord.devices
                 IN r.ok =>
                      /\ Cardinality(new) = 1
                      /\ \A s \in new :
                            /\ s \in 1..AddrTop
                            /\ r.devices[s] = l
                            /\ s \in DOMAIN r.saved /\ r.saved[s] = l
                            /\ Len(r.sent) = 1
                            /\ IsAssociationResponse(r.sent[1], l, s, ST_assoc_success)
                            /\ r.packet = <<r.sent[1]>>
                      /\ \A s \in DOMAIN coord.devices :
                            r.devices[s] = coord.devices[s]
                      /\ r.associate = <<>>
                      /\ ~GreenOn(r)

\* The operator has just approved a request: the response on its way
\* carries assoc_success and the key of the one entry of devices.
C2_Witness ==
    /\ role = "coordinator"
    /\ coord.associate = <<>>
    /\ ~GreenOn(coord)
    /\ Cardinality(DOMAIN coord.devices) = 1
    /\ Len(coord.sent) = 1
    /\ coord.sent[1].identifier = ID_association_response
    /\ coord.sent[1].status = ST_assoc_success
    /\ coord.sent[1].short_addr \in DOMAIN coord.devices
    /\ coord.devices[coord.sent[1].short_addr] = coord.sent[1].dst_addr

\* C3: an association request from a long address L that devices holds,
\* with no approval of another address pending, is acked and answered with
\* an association response to L that carries the short address stored for
\* L and assoc_success; the approval state, the blink, devices and the
\* persisted devices are as before.
C3_Reassociation ==
    role = "coordinator" =>
        \A ev \in CoordRequests : \A dt \in Elapsed(ev), pick \in Draws(coord, ev) :
           LET l == ev.frame.src_addr
           IN (l \in Values(coord.devices)
                  /\ (coord.associate = <<>> \/ coord.associate = <<l>>)) =>
                 LET r == CoordResult(coord, ev, dt, pick)
                 IN /\ r.ok
                    /\ Len(r.sent) = 2
                    /\ IsAck(r.sent[1], ev.frame.seq_num)
                    /\ \E s \in DOMAIN coord.devices :
                          /\ coord.devices[s] = l
                          /\ IsAssociationResponse(r.sent[2], l, s, ST_assoc_success)
                    /\ r.packet = <<r.sent[2]>>
                    /\ r.associate = coord.associate
                    /\ r.blink = coord.blink
                    /\ r.devices = coord.devices
                    /\ r.saved = coord.saved

\* A known device has just asked again: the response on its way carries
\* its stored address, and no approval is pending.
C3_Witness ==
    /\ role = "coordinator"
    /\ coord.associate = <<>>
    /\ coord.blink = 0
    /\ Len(coord.sent) = 2
    /\ IsAck(coord.sent[1], PeerSeq)
    /\ coord.sent[2].identifier = ID_association_response
    /\ coord.sent[2].status = ST_assoc_success
    /\ coord.sent[2].short_addr \in DOMAIN coord.devices
    /\ coord.devices[coord.sent[2].short_addr] = coord.sent[2].dst_addr
    /\ coord.devices \in InitDevices

\* C4: an association request from S while an approval of O # S is
\* pending is acked and answered with access_denied and 0xFFFF, and
\* association_request_handler leaves the approval (O and its start), the
\* blink and devices as they were; so does the whole iteration while the
\* approval window of O is open.  That S is in devices changes nothing.
C4_DeniedWhilePending ==
    role = "coordinator" =>
        \A ev \in CoordRequests : \A dt \in Elapsed(ev), pick \in Draws(coord, ev) :
           LET s == ev.frame.src_addr
           IN (coord.associate # <<>> /\ coord.associate # <<s>>) =>
                 LET before == CoordElapse(coord, dt)
                     h == CoordAfterHandler(coord, ev, dt, pick)
                     r == CoordResult(coord, ev, dt, pick)
                     Same(x) == /\ x.associate = before.associate
                                /\ x.associate_start = before.associate_start
                                /\ x.blink = before.blink
                                /\ x.devices = before.devices
                                /\ x.saved = before.saved
                 IN /\ h.ok
                    /\ Len(h.sent) = 2
                    /\ IsAck(h.sent[1], ev.frame.seq_num)
                    /\ IsAssociationResponse(h.sent[2], s, Unassigned, ST_access_denied)
                    /\ Same(h)
                    /\ before.associate_start + AssociateTimeout > Now =>
                          r.sent = h.sent /\ Same(r)

\* A second requester has just been turned away, also one that devices
\* holds: the approval of the first is still pending and blinking.
C4_Witness ==
    /\ role = "coordinator"
    /\ coord.associate # <<>>
    /\ coord.blink # 0
    /\ Len(coord.sent) = 2
    /\ IsAck(coord.sent[1], PeerSeq)
    /\ coord.sent[2].identifier = ID_association_response
    /\ coord.sent[2].status = ST_access_denied
    /\ coord.sent[2].short_addr = Unassigned
    /\ coord.sent[2].dst_addr # coord.associate[1]

\* C5: an iteration that handles no button 1 and then reads the clock
\* AssociateTimeout or more after the start of the approval of L submits
\* an association response to L with access_denied and 0xFFFF, clears the
\* approval and the green blink bit, and leaves devices as it was.
C5_ApprovalTimeout ==
    role = "coordinator" =>
        \A ev \in CoordInputs \ {OnButton(1)} :
           \A dt \in Elapsed(ev), pick \in Draws(coord, ev) :
              LET h == CoordAfterHandler(coord, ev, dt, pick)
                  r == CoordResult(coord, ev, dt, pick)
              IN (coord.associate # <<>>
                     /\ h.associate = coord.associate
                     /\ Now - h.associate_start >= AssociateTimeout) =>
                    /\ r.ok
                    /\ Len(r.sent) = Len(h.sent) + 1
                    /\ SubSeq(r.sent, 1, Len(h.sent)) = h.sent
                    /\ IsAssociationResponse(r.sent[Len(r.sent)], coord.associate[1],
                                             Unassigned, ST_access_denied)
                    /\ r.packet = <<r.sent[Len(r.sent)]>>
                    /\ r.associate = <<>>
                    /\ ~GreenOn(r)
                    /\ r.devices = coord.devices
                    /\ r.saved = coord.saved

\* The approval window has just closed: the refusal is the one frame of
\* the iteration, and nothing is pending approval or blinking.
C5_Witness ==
    /\ role = "coordinator"
    /\ coord.associate = <<>>
    /\ ~GreenOn(coord)
    /\ Len(coord.sent) = 1
    /\ coord.sent[1].identifier = ID_association_response
    /\ coord.sent[1].status = ST_access_denied
    /\ coord.sent[1].short_addr = Unassigned
    /\ coord.associate_start + AssociateTimeout <= Now

\* C6: an approval never stays pending beyond AssociateTimeout (30 s) plus
\* one quantum of the loop, counted from the time the coordinator first
\* began to wait for it, whatever arrives in the meantime.
C6_WindowBound ==
    (role = "coordinator" /\ coord.associate # <<>>) =>
        Now - coord.episode_start <= AssociateTimeout + QueueTimeout

\* C7: button 1 for a requester that devices does not hold, with every
\* assignable address taken, is answered with pan_at_capacity and 0xFFFF
\* and adds nothing to devices; the allocation loop is never entered
\* without an address it can end on, and with fewer than 0xFFFD entries
\* there is one.
C7_Capacity ==
    role = "coordinator" =>
        /\ ~coord.hung
        /\ Cardinality(DOMAIN coord.devices) < AddrTop =>
              \E s \in 0..AddrTop : Acceptable(coord, s)
        /\ \A dt \in Elapsed(OnButton(1)), pick \in 0..AddrTop :
              (coord.associate # <<>>
                  /\ coord.associate[1] \notin Values(coord.devices)
                  /\ Cardinality(DOMAIN coord.devices) >= AddrTop) =>
                 LET r == CoordResult(coord, OnButton(1), dt, pick)
                 IN /\ r.ok /\ ~r.hung
                    /\ Len(r.sent) = 1
                    /\ IsAssociationResponse(r.sent[1], coord.associate[1],
                                             Unassigned, ST_pan_at_capacity)
                    /\ r.devices = coord.devices
                    /\ r.saved = coord.saved

\* The operator has just approved a requester the full PAN cannot take.
C7_Witness ==
    /\ role = "coordinator"
    /\ Cardinality(DOMAIN coord.devices) = AddrTop
    /\ Len(coord.sent) = 1
    /\ coord.sent[1].identifier = ID_association_response
    /\ coord.sent[1].status = ST_pan_at_capacity
    /\ coord.sent[1].short_addr = Unassigned
    /\ coord.sent[1].dst_addr \notin Values(coord.devices)

----------------------------------------------------------------------------
(* The retry/ack layer.                                                    *)

\* What C8 says of the role r after an iteration: the retry counter is
\* within RetryLimit, the pending packet has been transmitted once and
\* then once for each retry counted, and a packet that left the pending
\* entry without an ack had been retransmitted RetryLimit times.
RetryCount(r) ==
    /\ r.packet_retry <= RetryLimit
    /\ r.packet # <<>> => r.ptx = 1 + r.packet_retry
    /\ \A i \in DOMAIN r.dropped : r.dropped[i] = 1 + RetryLimit

\* What C8 says of one iteration that takes the role from before (dt
\* earlier) to after: a pending packet is retransmitted at most once, and
\* only a retry period after it was last sent.
RetryPace(before, after, dt) ==
    (before.packet # <<>> /\ after.packet = before.packet) =>
        /\ after.ptx <= before.ptx + 1
        /\ after.ptx > before.ptx =>
              Now - Back(before.packet_last, dt) >= RetryPeriod

\* C8: a packet submitted with send_packet_wait_ack and never acknowledged
\* is transmitted once, retransmitted at most once per retry period and
\* RetryLimit (10) times in all, and then cleared, in both roles.
C8_RetryBound ==
    /\ role = "coordinator" =>
          /\ RetryCount(coord)
          /\ \A ev \in CoordInputs :
                \A dt \in Elapsed(ev), pick \in Draws(coord, ev) :
                   LET r == CoordResult(coord, ev, dt, pick)
                   IN r.ok => RetryPace(coord, r, dt)
    /\ role = "device" =>
          /\ RetryCount(device)
          /\ \A ev \in DeviceEvents(device) \cup {Empty} :
                \A dt \in Elapsed(ev) :
                   RetryPace(device, DeviceResult(device, ev, dt), dt)

\* C9: no role submits an ack-requiring packet while the one it submitted
\* before is still pending.
C9_NoOverwrite == ~coord.overwrote /\ ~device.overwrote

\* C10: in the iteration in which the retry layer gives up on a packet,
\* the device is left idle and the coordinator without a pending approval.
C10_IdleAfterGiveUp ==
    /\ device.gave_up => device.assoc_state = AS_idle
    /\ coord.gave_up => coord.associate = <<>>

----------------------------------------------------------------------------
(* The device's association.                                               *)

\* The events an iteration of the device's loop may dequeue.
DeviceInputs == DeviceEvents(device) \cup {Empty}

\* The beacons among them.
DeviceBeacons == {ev \in DeviceEvents(device) :
                     ev.kind = "on_packet" /\ ev.frame.ftype = FT_bcn}

\* The association responses to the device that carry status.
DeviceResponses(status) ==
    {ev \in DeviceEvents(device) :
        /\ ev.kind = "on_packet"
        /\ IsAssociationResponse(ev.frame, device.long_addr,
                                 ev.frame.short_addr, status)
        /\ ev.frame.req_ack = 1 /\ ev.frame.src_mode = AM_long}

\* r has transmitted an association request in the iteration under way.
SentAssociationRequest(r) ==
    \E i \in DOMAIN r.sent :
       /\ r.sent[i].ftype = FT_cmd
       /\ r.sent[i].identifier = ID_association_request

\* C11: an association response to the device's long address that carries
\* access_denied or pan_at_capacity, received in WaitResponse, leaves the
\* device idle with panid, coordinator and short_addr as they were, in
\* memory and in device.ini.
C11_RefusalKeepsConfig ==
    role = "device" =>
        \A status \in {ST_access_denied, ST_pan_at_capacity} :
           \A ev \in DeviceResponses(status) : \A dt \in Elapsed(ev) :
              device.assoc_state = AS_wait_response =>
                 LET r == DeviceResult(device, ev, dt)
                 IN /\ r.assoc_state = AS_idle
                    /\ r.panid = device.panid
                    /\ r.coordinator = device.coordinator
                    /\ r.short_addr = device.short_addr
                    /\ r.saved = device.saved

\* C12: a device whose panid is not 0xFFFF is never in WaitResponse, and
\* no beacon makes its handler send an association request.
C12_OnlyUnassociated ==
    (role = "device" /\ device.panid # BroadcastPanid) =>
        /\ device.assoc_state = AS_idle
        /\ \A ev \in DeviceBeacons : \A dt \in Elapsed(ev) :
              LET h == DeviceAfterHandler(device, ev, dt)
              IN ~SentAssociationRequest(h) /\ h.assoc_state = AS_idle

\* Bit n of x.
Bit(x, n) == (x \div Shl(1, n)) % 2

\* The beacons C13 says the device d answers: pan_coordinator and
\* association_permit are bits 14 and 15 of the superframe.
BeaconPermits(d, f) ==
    /\ f.src_mode = AM_short
    /\ f.dst_mode = AM_none
    /\ f.src_panid <= PanidTop
    /\ f.src_addr <= AddrTop
    /\ Bit(f.superframe, BCN_pan_coordinator) = 1
    /\ Bit(f.superframe, BCN_association_permit) = 1
    /\ (d.ssid = <<>> \/ d.ssid = <<f.ssid>>)
    /\ InServices(d.service, f.services)

\* C13: the handler of a beacon sends an association request exactly when
\* the beacon has src_mode short, dst_mode none, src_panid and src_addr up
\* to 0xFFFD, bits 14 and 15 of the superframe set, the ssid of the filter
\* and the service of the filter, whatever the other superframe bits are.
C13_BeaconFilter ==
    (role = "device" /\ device.panid = BroadcastPanid) =>
        \A ev \in DeviceBeacons : \A dt \in Elapsed(ev) :
           SentAssociationRequest(DeviceAfterHandler(device, ev, dt))
              <=> BeaconPermits(device, ev.frame)

\* C14: the device is never in WaitResponse more than DeviceTimeout (35 s)
\* plus one quantum of the loop after it entered it, whatever it received
\* in the meantime.
C14_WaitBound ==
    (role = "device" /\ device.assoc_state = AS_wait_response) =>
        Now - device.episode_start <= DeviceTimeout + QueueTimeout

----------------------------------------------------------------------------
(* The transport.                                                          *)

\* C15: once synced, a header read that returns less than a header sends
\* the reader back to sync-lost: do_sync is set again when the iteration
\* ends.
C15_ShortHeaderResyncs ==
    (role = "transport" /\ dev.short_header) => dev.do_sync

\* Some prefix of s ends with the magic.
SeenMagic(s) == \E j \in 1..Len(s) : EndsWith(Take(s, j), Magic)

\* The ok response without payload.
OkEmpty == [kind |-> RSP_ok, data |-> <<>>]

\* Nothing but the stream of DEV.__init__ was sent, and nothing was taken.
OnlyHandshake ==
    /\ nev = 0
    /\ dev.requests = <<>>
    /\ dev.taken = <<>>
    /\ \A t \in Tasks : dev.task[t] = "idle"

\* C16: however the reads split the stream, the reader is synced exactly
\* when the bytes read since sync-lost end with the magic, it reads
\* nothing past the magic while it syncs, and once noise, magic and 80 00
\* are read the response queue holds one ok without payload.
C16_Synchronises ==
    role = "transport" =>
        /\ dev.do_sync <=> ~SeenMagic(dev.since)
        /\ ~dev.do_sync => EndsWith(dev.since, Magic)
        /\ (OnlyHandshake /\ dev.wire = <<>>) =>
               /\ dev.reader_queue = <<OkEmpty>>
               /\ dev.event_queue = <<>>

IsEvent(msg) == BitAnd(msg.kind, 192) = 192
IsResponse(msg) == msg.kind \in {RSP_ok, RSP_err}

\* C17: the events read from the stream are, in the order read, those the
\* role dequeued followed by those in the event queue, and the responses
\* read are those the callers took followed by those in the response
\* queue: every message is in the queue of its kind, once, in its place.
C17_Demultiplexes ==
    role = "transport" =>
        /\ SelectSeq(dev.framed, IsEvent) = dev.dequeued \o dev.event_queue
        /\ SelectSeq(dev.framed, IsResponse) = dev.taken \o dev.reader_queue

\* C18: no request is written while another caller waits for its
\* response, and no caller returns the response to another's request.
C18_Serialised ==
    role = "transport" =>
        /\ Cardinality({t \in Tasks : dev.task[t] = "waiting"}) <= 1
        /\ \A t \in Tasks : \A u \in Tasks \ {t} :
               dev.task[t] = "returned" => dev.got[t] # <<u>>

----------------------------------------------------------------------------
(* The codec.                                                              *)

\* C21: decoding what encode returned of a header gives the header back,
\* field by field, and an empty payload.
C21_RoundTrip ==
    (role = "codec" /\ codec.out # <<>>) =>
        codec.out[1] = Decoded("tuple", codec.m, <<>>)

\* The 16 bits of a short address of the model: AddrTop stands for 0xFFFD,
\* and the two values above it for 0xFFFE and 0xFFFF.
Short16(a) == IF a >= AddrTop THEN PanidTop + (a - AddrTop) ELSE a

\* The 8 bytes of a long address of the model.
LongBytes(a) == <<0, 0, 0, 0, 0, 0, 0, a>>

\* The header a role builds for the frame f.
HeaderOf(f) ==
    [frame_control |-> FrameControl(f.ftype, f.req_ack, f.panid_compression,
                                    f.dst_mode, 0, f.src_mode),
     seq_num |-> f.seq_num,
     dst_panid |-> IF f.dst_mode \in Addressed THEN <<f.dst_panid>>
                   ELSE Unset,
     dst_addr |-> IF f.dst_mode = AM_short THEN <<Short16(f.dst_addr)>>
                  ELSE IF f.dst_mode = AM_long THEN LongBytes(f.dst_addr)
                  ELSE Unset,
     src_panid |-> IF f.src_mode \in Addressed THEN <<f.src_panid>>
                   ELSE Unset,
     src_addr |-> IF f.src_mode = AM_short THEN <<Short16(f.src_addr)>>
                  ELSE IF f.src_mode = AM_long THEN LongBytes(f.src_addr)
                  ELSE Unset]

\* CMD.encode
CMD_encode(f) ==
    U8(f.identifier)
    \o (IF f.identifier = ID_association_request THEN U8(f.capability)
        ELSE IF f.identifier = ID_association_response
        THEN U16(Short16(f.short_addr)) \o U8(f.status)
        ELSE <<>>)

\* The bytes of an ack or command frame f given to DEV.send_packet.
OnAir(f) ==
    MHR_encode(HeaderOf(f)).data
    \o (IF f.ftype = FT_cmd THEN CMD_encode(f) ELSE <<>>)

\* The handler of button 1 sends one frame, of the bytes given, steps dsn
\* and leaves the pending packet and its counters alone.
ButtonSends(high, low) ==
    \A dt \in Elapsed(OnButton(1)) :
       LET before == DeviceElapse(device, dt)
           r == DeviceAfterHandler(device, OnButton(1), dt)
       IN /\ Len(r.sent) = 1
          /\ OnAir(r.sent[1])
                 = <<high, low, device.dsn, 255, 255, 255, 255, 7>>
          /\ r.dsn = (device.dsn + 1) % SeqMod
          /\ r.packet = before.packet
          /\ r.packet_seq = before.packet_seq
          /\ r.packet_retry = before.packet_retry
          /\ r.packet_last = before.packet_last

\* C22: on button 1 the device sends one beacon request of the bytes
\* 08 03 dsn FF FF FF FF 07 (frame_control 0x0803: command, destination
\* short), dsn being its counter before the press; the counter is then
\* (dsn + 1) mod 256, and no pending-ack entry is made.
C22_BeaconRequest == role = "device" => ButtonSends(8, 3)

\* C22 as stated: the bytes are 00 03 dsn FF FF FF FF 07.
C22_AsStated == role = "device" => ButtonSends(0, 3)

C22_Witness ==
    /\ role = "device"
    /\ device.dsn = 0
    /\ device.sent # <<>>
    /\ OnAir(device.sent[1]) = <<8, 3, 255, 255, 255, 255, 255, 7>>

----------------------------------------------------------------------------
(* Acks.                                                                   *)

\* The association request frames among the coordinator's inputs that fail
\* one of the handler's checks.
CoordBadRequests ==
    {ev \in CoordEvents(coord) :
        /\ ev.kind = "on_packet"
        /\ ev.frame.ftype = FT_cmd
        /\ ev.frame.identifier = ID_association_request
        /\ ~IsAssociationRequest(coord, ev.frame)}

\* What a handler may change of the coordinator is the same in a and b.
CoordSame(a, b) ==
    /\ a.associate = b.associate
    /\ a.associate_start = b.associate_start
    /\ a.devices = b.devices
    /\ a.saved = b.saved
    /\ a.blink = b.blink
    /\ a.blink_last = b.blink_last
    /\ a.packet = b.packet
    /\ a.packet_seq = b.packet_seq
    /\ a.packet_retry = b.packet_retry
    /\ a.packet_last = b.packet_last
    /\ a.dsn = b.dsn
    /\ a.bsn = b.bsn
    /\ a.panid = b.panid

\* The coordinator as it is when the handler of ev hands its first frame
\* to the radio (<<>> when it hands none): the handler run with that
\* request refused.
AtFirstSend(ev, dt, pick) ==
    CoordAfterHandler([coord EXCEPT !.fail_at = 1], ev, dt, pick).raised

\* C23: the handler of an association request that passes the checks
\* sends the ack of the request's seq_num first, with associate and
\* devices still as they were, and whatever else it sends follows and is
\* no ack; the handler of a request that fails a check sends nothing and
\* changes nothing.
C23_AckFirst ==
    role = "coordinator" =>
        /\ \A ev \in CoordRequests :
              \A dt \in Elapsed(ev), pick \in Draws(coord, ev) :
                 LET before == CoordElapse(coord, dt)
                     h == CoordAfterHandler(coord, ev, dt, pick)
                     first == AtFirstSend(ev, dt, pick)
                 IN /\ h.sent # <<>>
                    /\ h.sent[1] = MHR(FT_ack, ev.frame.seq_num)
                    /\ \A i \in 2..Len(h.sent) :
                          /\ h.sent[i].identifier = ID_association_response
                          /\ h.sent[i].dst_addr = ev.frame.src_addr
                    /\ first # <<>>
                    /\ CoordSame(first[1], before)
        /\ \A ev \in CoordBadRequests :
              \A dt \in Elapsed(ev), pick \in Draws(coord, ev) :
                 LET before == CoordElapse(coord, dt)
                     h == CoordAfterHandler(coord, ev, dt, pick)
                 IN /\ h.sent = <<>>
                    /\ CoordSame(h, before)

C23_Witness ==
    /\ role = "coordinator"
    /\ coord.associate = <<>>
    /\ Len(coord.sent) = 2
    /\ coord.sent[1] = MHR(FT_ack, PeerSeq)
    /\ coord.sent[2].identifier = ID_association_response
    /\ coord.sent[2].status = ST_assoc_success

\* The ack frames among the inputs of a role in state r.
Acks(events) ==
    {ev \in events : ev.kind = "on_packet" /\ ev.frame.ftype = FT_ack}

\* What an ack of ev does to a role: before is the role when the frame is
\* dequeued and h the role after the handler.
AckEffect(before, h, ev) ==
    /\ h.sent = <<>>
    /\ h.dsn = before.dsn
    /\ h.packet_seq = before.packet_seq
    /\ h.packet_last = before.packet_last
    /\ IF before.packet # <<>> /\ ev.frame.seq_num = before.packet_seq
       THEN h.packet = <<>> /\ h.packet_retry = 0
       ELSE h.packet = before.packet /\ h.packet_retry = before.packet_retry

\* C24: an ack clears the pending packet exactly when one is pending and
\* the ack carries packet_seq; any other ack leaves packet, packet_retry
\* and packet_last as they are; no ack changes assoc_state, associate or
\* devices; and packet_seq is the seq_num of the pending packet's header,
\* whatever dsn has become.
C24_AckClears ==
    /\ role = "coordinator" =>
          /\ coord.packet # <<>> => coord.packet[1].seq_num = coord.packet_seq
          /\ \A ev \in Acks(CoordEvents(coord)) :
                \A dt \in Elapsed(ev), pick \in Draws(coord, ev) :
                   LET before == CoordElapse(coord, dt)
                       h == CoordAfterHandler(coord, ev, dt, pick)
                   IN /\ AckEffect(before, h, ev)
                      /\ h.associate = before.associate
                      /\ h.associate_start = before.associate_start
                      /\ h.devices = before.devices
                      /\ h.saved = before.saved
    /\ role = "device" =>
          /\ device.packet # <<>> =>
                device.packet[1].seq_num = device.packet_seq
          /\ \A ev \in Acks(DeviceEvents(device)) : \A dt \in Elapsed(ev) :
                LET before == DeviceElapse(device, dt)
                    h == DeviceAfterHandler(device, ev, dt)
                IN /\ AckEffect(before, h, ev)
                   /\ h.assoc_state = before.assoc_state
                   /\ h.assoc_start = before.assoc_start
                   /\ h.panid = before.panid
                   /\ h.short_addr = before.short_addr
                   /\ h.saved = before.saved

\* The device's association request was acked at its first transmission,
\* the response is still awaited, and dsn has moved on.
C24_Witness ==
    /\ role = "device"
    /\ device.assoc_state = AS_wait_response
    /\ device.packet = <<>>
    /\ device.packet_retry = 0
    /\ device.ptx = 1
    /\ device.dsn # (device.packet_seq + 1) % SeqMod

\* C25: whatever message the reader frames, the reader thread keeps
\* running: no exception leaves reader().
C25_ReaderSurvives == role = "transport" => dev.exc = "none"

----------------------------------------------------------------------------
(* The end of an approval.                                                 *)

\* The association responses to l among the frames r has handed to the
\* radio in the iteration under way.
RepliesTo(r, l) ==
    {i \in DOMAIN r.sent :
        /\ r.sent[i].ftype = FT_cmd
        /\ r.sent[i].identifier = ID_association_response
        /\ r.sent[i].dst_addr = l}

\* C26: an iteration that begins with the approval of L pending either
\* leaves it pending and submits no response to L, or ends it and submits
\* exactly one: the handler of button 1 the reply with assoc_success or
\* pan_at_capacity, else the deadline the reply with access_denied, also
\* when the button is handled with the deadline reached; and an approval
\* that begins in an iteration is not ended in it.
C26_OneReply ==
    role = "coordinator" =>
        \A ev \in CoordInputs :
           \A dt \in Elapsed(ev), pick \in Draws(coord, ev) :
              LET h == CoordAfterHandler(coord, ev, dt, pick)
                  a == AssociateTimeoutStep(h, Now)
                  r == CoordDeadlines(h, Now)
              IN r.ok =>
                 /\ r.associate = a.associate
                 /\ coord.associate = <<>> => r.associate = h.associate
                 /\ coord.associate # <<>> =>
                       LET to == RepliesTo(a, coord.associate[1])
                       IN /\ r.associate \in {<<>>, coord.associate}
                          /\ r.associate # <<>> => to = {}
                          /\ r.associate = <<>> =>
                                /\ Cardinality(to) = 1
                                /\ \A i \in to :
                                      IF ev = OnButton(1)
                                      THEN /\ i <= Len(h.sent)
                                           /\ a.sent[i].status \in
                                                  {ST_assoc_success,
                                                   ST_pan_at_capacity}
                                      ELSE /\ i = Len(h.sent) + 1
                                           /\ a.sent[i].status
                                                  = ST_access_denied

\* Button 1 has just ended an approval: the one frame of the iteration is
\* the reply with the address assigned.
C26_Witness ==
    /\ role = "coordinator"
    /\ coord.associate = <<>>
    /\ Len(coord.sent) = 1
    /\ coord.sent[1].identifier = ID_association_response
    /\ coord.sent[1].status = ST_assoc_success
    /\ coord.sent[1].short_addr \in DOMAIN coord.devices
    /\ coord.devices[coord.sent[1].short_addr] = coord.sent[1].dst_addr
    /\ coord.packet = <<coord.sent[1]>>

----------------------------------------------------------------------------
(* The devices map.                                                        *)

\* No long address is the value of two keys.
Injective(devices) ==
    \A s \in DOMAIN devices : \A u \in DOMAIN devices :
       devices[s] = devices[u] => s = u

\* C27: devices is injective, and an iteration of the loop leaves it
\* injective, with every entry it had under the same key and with the
\* same long address.
C27_DevicesInjective ==
    role = "coordinator" =>
        /\ Injective(coord.devices)
        /\ \A ev \in CoordInputs :
              \A dt \in Elapsed(ev), pick \in Draws(coord, ev) :
                 LET r == CoordResult(coord, ev, dt, pick)
                 IN r.ok =>
                       /\ Injective(r.devices)
                       /\ \A s \in DOMAIN coord.devices :
                             /\ s \in DOMAIN r.devices
                             /\ r.devices[s] = coord.devices[s]

\* A second device has just been given an address, beside the one the
\* coordinator booted with.
C27_Witness ==
    /\ role = "coordinator"
    /\ Cardinality(DOMAIN coord.devices) = 2
    /\ coord.devices \notin PartDevices
    /\ Len(coord.sent) = 1
    /\ coord.sent[1].identifier = ID_association_response
    /\ coord.sent[1].status = ST_assoc_success
    /\ coord.sent[1].short_addr \in DOMAIN coord.devices
    /\ coord.devices[coord.sent[1].short_addr] = coord.sent[1].dst_addr
    /\ coord.sent[1].dst_addr # 1

----------------------------------------------------------------------------
(* The coordinator and the devices together.                               *)

\* The device holds a short address it was assigned.
Holds(d) == d.short_addr # <<>> /\ d.short_addr[1] <= AddrTop

\* C28: in the system of one coordinator and the devices on a channel that
\* loses and repeats frames, a device that has stored a short address no
\* higher than 0xFFFD from an association response finds that address in
\* the coordinator's devices, mapped to its own long address, and has
\* stored the coordinator's panid; two devices with different long
\* addresses never hold the same short address.
C28_Agreement ==
    role = "system" =>
        /\ \A l \in SysDevices :
              LET d == net.devices[l]
              IN Holds(d) =>
                    /\ d.short_addr[1] \in DOMAIN coord.devices
                    /\ coord.devices[d.short_addr[1]] = d.long_addr
                    /\ d.panid = coord.panid
        /\ \A l, m \in SysDevices :
              (/\ Holds(net.devices[l])
               /\ Holds(net.devices[m])
               /\ net.devices[l].long_addr # net.devices[m].long_addr)
                 => net.devices[l].short_addr # net.devices[m].short_addr

\* Every device holds a short address, and no two of them the same one.
C28_Witness ==
    /\ role = "system"
    /\ \A l \in SysDevices : Holds(net.devices[l])
    /\ Cardinality({net.devices[l].short_addr : l \in SysDevices})
          = Cardinality(SysDevices)

----------------------------------------------------------------------------
(* Errors of the radio and of the codec.                                   *)

\* C19: a request the radio answers with err never ends the role's loop:
\* ResponseErr does not leave loop().
C19_ErrKeepsLoop ==
    coord.exc # "ResponseErr" /\ device.exc # "ResponseErr"

\* The exceptions the decoders end packet_handler with.
Refusals == {"TypeError", "ValueError", "struct.error"}

\* C20: a packet the codec refuses never ends the role's loop, and the
\* iteration that dequeues it transmits nothing and leaves the role as an
\* iteration that dequeues nothing does before its deadlines.
C20_RefusedDropped ==
    /\ coord.exc \notin Refusals
    /\ device.exc \notin Refusals
    /\ (role = "coordinator" /\ coord.exc = "none") =>
          \A p \in RefusedPackets, dt \in {0, QueueTimeout} :
             LET r == CoordRefused(coord, p, dt)
             IN /\ r.sent = <<>>
                /\ [r EXCEPT !.exc = "none"] = CoordAfterHandler(coord, Empty, dt, 0)
    /\ (role = "device" /\ device.exc = "none") =>
          \A p \in RefusedPackets, dt \in {0, QueueTimeout} :
             LET r == DeviceRefused(device, p, dt)
             IN /\ r.sent = <<>>
                /\ [r EXCEPT !.exc = "none"] = DeviceAfterHandler(device, Empty, dt)

====
